---- MODULE Spec2Model ----
(***************************************************************************)
(* Model of meta_git_cli: the recursive parallel clone engine              *)
(* (clone_queue.rs, clone_worker.rs, clone.rs, update.rs) and the          *)
(* worktree set lifecycle (commands/worktree/*.rs).                        *)
(*                                                                         *)
(* Paths are sequences of path components relative to the directory that   *)
(* holds the first manifest (clone_dir_path in clone.rs, cwd in            *)
(* update.rs); Path::join is sequence concatenation.                       *)
(***************************************************************************)
EXTENDS Integers, Sequences, FiniteSets, TLC

(* ------------------------------ bounds --------------------------------- *)

\* largest --parallel value explored (0 is a value the parser accepts)
MaxParallel == 2
\* largest --meta-depth value explored
MaxMetaDepth == 1
\* largest number of remove calls in a run of store commands
MaxRemoves == 2

(* ------------------------- Option<T> as a sequence --------------------- *)

None == <<>>
Some(x) == <<x>>
IsSome(o) == Len(o) = 1
Unwrap(o) == o[1]

(* --------------------- the remote content (manifests) ------------------ *)

Root == <<>>

\* spec scenario S1: .meta lists a and b; b/.meta lists c
WorldNested ==
    (Root :> << <<"a">>, <<"b">> >>) @@ (<<"b">> :> << <<"c">> >>)
\* two manifests that name the same target path: .meta lists a/b and a,
\* a/.meta lists b
WorldOverlap ==
    (Root :> << <<"a", "b">>, <<"a">> >>) @@ (<<"a">> :> << <<"b">> >>)
\* a chain three manifests deep
WorldChain ==
    (Root :> << <<"a">> >>) @@ (<<"a">> :> << <<"b">> >>)
        @@ (<<"a", "b">> :> << <<"c">> >>)

Worlds == {WorldNested, WorldOverlap, WorldChain}

\* directories whose manifest file exists but does not parse
BrokenChoices == {{}, {<<"b">>}}

\* first-level directories that may already be on disk before the command
PreexistChoices(w) ==
    SUBSET {w[Root][i] : i \in {j \in 1..Len(w[Root]) : Len(w[Root][j]) = 1}}

VARIABLES
    world,            \* manifests of the remote repositories
    broken,           \* directories whose manifest fails to parse
    cmd,              \* "clone" or "update"
    parallelism,      \* clone_with_queue's parallelism argument
    meta_depth,       \* CloneQueue.meta_depth
    orphans,          \* local git repos that the manifest next to them lacks
    dry_run,          \* execute_git_update's dry_run
    warnings,         \* the paths update warned about (history)
    pending,          \* CloneQueue.pending
    completed,        \* CloneQueue.completed
    failed,           \* CloneQueue.failed
    total_discovered, \* CloneQueue.total_discovered
    total_completed,  \* CloneQueue.total_completed
    active_workers,   \* clone_with_queue's active_workers
    exists,           \* paths that exist on disk
    cloned,           \* paths that hold a checked-out repository
    pc,               \* position of the main thread (0) and of each worker
    task,             \* the task a worker holds
    todo,             \* projects push_from_meta still has to look at
    cur,              \* the task handed to push
    added,            \* push_from_meta's running return value
    initial_count,    \* execute_git_clone's initial_count
    gitFailed         \* paths whose git clone failed (history)

\* worktree set lifecycle: one set name, one command at a time
VARIABLES
    op,               \* the worktree command that runs
    args,             \* its arguments
    wpc,              \* position inside handle_exec / handle_create / handle_destroy
    wt_dir,           \* the set root directory exists on disk
    worktrees,        \* aliases whose git worktree exists in the set
    store,            \* the store entry of the set, if any
    gitignore,        \* the worktrees directory is listed in .gitignore
    created_repos,    \* handle_create's created_repos
    idx,              \* handle_create's position in repos_to_create
    guard,            \* an EphemeralGuard is alive
    exec_result,      \* how the executed command (or the step before it) ended
    result,           \* what the command returned to its caller
    events,           \* side effects in the order they happened (history)
    was_present       \* the set existed before the command (history)

wtVars == <<op, args, wpc, wt_dir, worktrees, store, gitignore, created_repos,
            idx, guard, exec_result, result, events, was_present>>

\* inputs of the run, fixed after construction
cfgVars == <<world, broken, cmd, parallelism, meta_depth, orphans, dry_run>>

cloneVars == <<cfgVars, warnings, pending, completed, failed, total_discovered,
               total_completed, active_workers, exists, cloned, pc, task,
               todo, cur, added, initial_count, gitFailed>>

\* prune: the whole store, one prune command at a time
VARIABLES
    prune_args,       \* dry_run, strict and the state the command started in
    ppc,              \* position inside handle_prune
    store_worktrees,  \* store.worktrees: path key -> entry
    set_dirs,         \* path keys whose set root directory exists
    to_remove,        \* handle_prune's to_remove
    removed,          \* handle_prune's removed
    pidx,             \* position in to_remove
    prune_result,     \* what handle_prune returned
    prune_events,     \* side effects in the order they happened (history)
    remove_calls,     \* number of remove calls made on the store so far
    remove_result     \* the set and the outcome of the last remove call

removeVars == <<remove_calls, remove_result>>

pruneVars == <<prune_args, ppc, store_worktrees, set_dirs, to_remove, removed,
               pidx, prune_result, prune_events, removeVars>>

\* no remove call was made yet
NoRemove == [key |-> "-", outcome |-> "none"]

\* snapshot: one workspace, at most one snapshot, one command at a time
VARIABLES
    disk,             \* repo -> is it a git repo on disk, its HEAD, is it dirty
    snap,             \* the saved snapshot: repo -> captured state, if any
    snap_args,        \* the arguments of the restore
    spc,              \* position inside execute_snapshot_restore
    repos_to_restore, \* execute_snapshot_restore's repos_to_restore
    missing_repos,    \* execute_snapshot_restore's missing_repos
    sidx,             \* position in repos_to_restore
    success_count,
    fail_count,
    snap_result,      \* what the last snapshot command returned
    stashes,          \* repo -> git stash push runs of the restore (history)
    checkouts,        \* repos the restore ran git checkout in (history)
    changed,          \* the workspace changed after the capture (history)
    disk_r,           \* disk when the restore started (history)
    snap_events       \* what the restore printed (history)

snapVars == <<disk, snap, snap_args, spc, repos_to_restore, missing_repos,
              sidx, success_count, fail_count, snap_result, stashes,
              checkouts, changed, disk_r, snap_events>>

\* commit --edit: the staged repos, the file in the editor, the parsed commits
VARIABLES
    staged,           \* repos_with_changes: <<name, files>> per repo
    edit,             \* what the user leaves in the file, None: the template
    content,          \* the content of META_COMMIT_EDITMSG
    commits,          \* what parse_multi_commit_file returned
    cpc,              \* position inside execute_editor_commit
    committed         \* <<repo, message>> of the git commits that succeeded

commitVars == <<staged, edit, content, commits, cpc, committed>>

toolVars == <<snapVars, commitVars>>

vars == <<cloneVars, wtVars, pruneVars, toolVars>>

\* update.rs line 118: clone_with_queue(queue, 4, &mp)
UpdateParallelism == 4

Main == 0
Workers == 1..(IF MaxParallel > UpdateParallelism THEN MaxParallel
               ELSE UpdateParallelism)
Procs == {Main} \cup Workers
NoTask == [target_path |-> <<"-">>, depth_level |-> 0]

(* ------------------------------ file system ---------------------------- *)

IsStrictPrefix(p, q) == Len(p) < Len(q) /\ SubSeq(q, 1, Len(p)) = p

\* the directories git clone creates for a target: the target and its parents
WithParents(p) == {SubSeq(p, 1, k) : k \in 0..Len(p)}

\* config::find_meta_config_in(dir).is_some()
FindMetaConfigIn(dir) == dir \in cloned /\ dir \in DOMAIN world

(* ------------------------------ CloneQueue ----------------------------- *)

Item(path, depth, isCall) ==
    [target_path |-> path, depth_level |-> depth, call |-> isCall]

PendingPaths == {pending[i].target_path : i \in 1..Len(pending)}

\* push_from_meta, lines 85-89: the meta depth limit
DepthLimitedMissing(depth_level) == FALSE
DepthLimitedOffByOne(depth_level) ==
    IsSome(meta_depth) /\ depth_level > Unwrap(meta_depth) + 1
DepthLimited(depth_level) ==
    IsSome(meta_depth) /\ depth_level > Unwrap(meta_depth)

\* push_from_meta, lines 98-116: one candidate task per project of the manifest
Projects(base_dir, depth_level) ==
    [i \in 1..Len(world[base_dir]) |->
        Item(base_dir \o world[base_dir][i], depth_level, FALSE)]

\* push_from_meta, line 102: target_path.exists()
TargetExistsNever(path) == FALSE
TargetExists(path) == path \in exists

\* where push_from_meta returns to: the seeding caller or clone_single_repo
RetPc(p, err) ==
    IF p = Main THEN (IF err THEN "seed_error" ELSE "seeded") ELSE "dec_some"

\* push_from_meta: the head of todo is either a call push_from_meta(base, d)
\* (entry checks, parse) or one project of the loop over a parsed manifest
PushFromMetaStep(p) ==
    /\ pc[p] = "pfm"
    /\ IF todo[p] = <<>>
       THEN /\ pc' = [pc EXCEPT ![p] = RetPc(p, FALSE)]
            /\ UNCHANGED <<todo, cur>>
       ELSE LET it == Head(todo[p])
                rest == Tail(todo[p])
            IN  IF it.call
                THEN IF DepthLimited(it.depth_level)
                        \/ ~FindMetaConfigIn(it.target_path)
                     THEN /\ todo' = [todo EXCEPT ![p] = rest]
                          /\ UNCHANGED <<pc, cur>>
                     ELSE IF it.target_path \in broken
                     THEN /\ todo' = [todo EXCEPT ![p] = <<>>]
                          /\ pc' = [pc EXCEPT ![p] = RetPc(p, TRUE)]
                          /\ UNCHANGED cur
                     ELSE /\ todo' = [todo EXCEPT ![p] =
                                 Projects(it.target_path, it.depth_level) \o rest]
                          /\ UNCHANGED <<pc, cur>>
                ELSE IF TargetExists(it.target_path)
                     THEN /\ todo' = [todo EXCEPT ![p] =
                                 IF FindMetaConfigIn(it.target_path)
                                 THEN <<Item(it.target_path, it.depth_level + 1, TRUE)>>
                                          \o rest
                                 ELSE rest]
                          /\ UNCHANGED <<pc, cur>>
                     ELSE /\ todo' = [todo EXCEPT ![p] = rest]
                          /\ cur' = [cur EXCEPT ![p] = it]
                          /\ pc' = [pc EXCEPT ![p] = "push_chk"]
    /\ UNCHANGED <<toolVars, wtVars, pruneVars, cfgVars, warnings,
                   pending, completed, failed, total_discovered,
                   total_completed, active_workers, exists, cloned, task,
                   added, initial_count, gitFailed>>

\* push, lines 60-66: the completed check under the completed lock
AlreadyCompletedNever(path) == FALSE
AlreadyCompleted(path) == path \in completed

PushCheckCompleted(p) ==
    /\ pc[p] = "push_chk"
    /\ pc' = [pc EXCEPT ![p] =
                 IF AlreadyCompleted(cur[p].target_path) THEN "pfm" ELSE "push_ins"]
    /\ UNCHANGED <<toolVars, wtVars, pruneVars, cfgVars, warnings,
                   pending, completed, failed, total_discovered,
                   total_completed, active_workers, exists, cloned, task,
                   todo, cur, added, initial_count, gitFailed>>

\* push, lines 69-77: the pending check and the append under the pending lock
PushInsert(p) ==
    /\ pc[p] = "push_ins"
    /\ IF cur[p].target_path \in PendingPaths
       THEN UNCHANGED <<pending, total_discovered, added>>
       ELSE /\ pending' = Append(pending,
                             [target_path |-> cur[p].target_path,
                              depth_level |-> cur[p].depth_level])
            /\ total_discovered' = total_discovered + 1
            /\ added' = [added EXCEPT ![p] = @ + 1]
    /\ pc' = [pc EXCEPT ![p] = "pfm"]
    /\ UNCHANGED <<toolVars, wtVars, pruneVars, cfgVars, warnings,
                   completed, failed, total_completed,
                   active_workers, exists, cloned, task, todo, cur,
                   initial_count, gitFailed>>

\* take_one: Vec::pop under the pending lock
TakeOne(w) ==
    /\ pc[w] = "take"
    /\ IF pending # <<>>
       THEN /\ task' = [task EXCEPT ![w] = pending[Len(pending)]]
            /\ pending' = SubSeq(pending, 1, Len(pending) - 1)
            /\ pc' = [pc EXCEPT ![w] =
                         IF cmd = "clone" THEN "clone" ELSE "inc_some"]
       ELSE /\ pc' = [pc EXCEPT ![w] =
                         IF cmd = "clone" THEN "dec_none" ELSE "check"]
            /\ UNCHANGED <<task, pending>>
    /\ UNCHANGED <<toolVars, wtVars, pruneVars, cfgVars, warnings,
                   completed, failed, total_discovered,
                   total_completed, active_workers, exists, cloned, todo, cur,
                   added, initial_count, gitFailed>>

\* is_finished: pending.is_empty() && active_workers == 0
IsFinishedPendingOnly == pending = <<>>
IsFinished == pending = <<>> /\ active_workers = 0

\* mark_completed, line 154, and mark_failed, line 167: total_completed.fetch_add
CountDoneCompletedOnly(next) ==
    IF next = "mc_insert" THEN total_completed + 1 ELSE total_completed
CountDone(next) == total_completed + 1

MarkCount(w) ==
    /\ pc[w] \in {"mc_count", "mf_count"}
    /\ LET next == IF pc[w] = "mc_count" THEN "mc_insert" ELSE "mf_insert"
       IN  /\ total_completed' = CountDone(next)
           /\ pc' = [pc EXCEPT ![w] = next]
    /\ UNCHANGED <<toolVars, wtVars, pruneVars, cfgVars, warnings,
                   pending, completed, failed, total_discovered,
                   active_workers, exists, cloned, task, todo, cur, added,
                   initial_count, gitFailed>>

\* mark_completed, lines 156-162: insert into completed, then push_from_meta
MarkCompletedInsert(w) ==
    /\ pc[w] = "mc_insert"
    /\ completed' = completed \cup {task[w].target_path}
    /\ todo' = [todo EXCEPT ![w] =
                   <<Item(task[w].target_path, task[w].depth_level + 1, TRUE)>>]
    /\ added' = [added EXCEPT ![w] = 0]
    /\ pc' = [pc EXCEPT ![w] = "pfm"]
    /\ UNCHANGED <<toolVars, wtVars, pruneVars, cfgVars, warnings,
                   pending, failed, total_discovered, total_completed,
                   active_workers, exists, cloned, task, cur, initial_count,
                   gitFailed>>

\* mark_failed, lines 169-170: insert into failed
FailedAfterMarkDropped(w) == failed
FailedAfterMark(w) == failed \cup {task[w].target_path}

MarkFailedInsert(w) ==
    /\ pc[w] = "mf_insert"
    /\ failed' = FailedAfterMark(w)
    /\ pc' = [pc EXCEPT ![w] = "dec_some"]
    /\ UNCHANGED <<toolVars, wtVars, pruneVars, cfgVars, warnings,
                   pending, completed, total_discovered,
                   total_completed, active_workers, exists, cloned, task, todo,
                   cur, added, initial_count, gitFailed>>

(* --------------------------- clone_single_repo ------------------------- *)

\* lines 100-116: a target that exists and is not empty is skipped and marked
\* completed.  Every directory of the model that exists holds something (a
\* checkout, or the child whose clone created it).
CloneCheckExists(w) ==
    /\ pc[w] = "clone"
    /\ pc' = [pc EXCEPT ![w] =
                 IF task[w].target_path \in exists THEN "mc_count" ELSE "git"]
    /\ UNCHANGED <<toolVars, wtVars, pruneVars, cfgVars, warnings,
                   pending, completed, failed, total_discovered,
                   total_completed, active_workers, exists, cloned, task, todo,
                   cur, added, initial_count, gitFailed>>

\* lines 126-147: git clone ran and exited with success; git refuses a target
\* that exists and is not empty
GitCloneOk(w) ==
    /\ pc[w] = "git"
    /\ task[w].target_path \notin exists
    /\ exists' = exists \cup WithParents(task[w].target_path)
    /\ cloned' = cloned \cup {task[w].target_path}
    /\ pc' = [pc EXCEPT ![w] = "mc_count"]
    /\ UNCHANGED <<toolVars, wtVars, pruneVars, cfgVars, warnings,
                   pending, completed, failed, total_discovered,
                   total_completed, active_workers, task, todo, cur, added,
                   initial_count, gitFailed>>

\* lines 177-192: git clone exited non-zero, or git could not be spawned
GitCloneFails(w) ==
    /\ pc[w] = "git"
    /\ gitFailed' = gitFailed \cup {task[w].target_path}
    /\ pc' = [pc EXCEPT ![w] = "mf_count"]
    /\ UNCHANGED <<toolVars, wtVars, pruneVars, cfgVars, warnings,
                   pending, completed, failed, total_discovered,
                   total_completed, active_workers, exists, cloned, task, todo,
                   cur, added, initial_count>>

(* ---------------------------- clone_with_queue ------------------------- *)

\* The pool of clone_worker.rs (used by clone) marks a worker active before
\* take_one; the pool of clone_queue.rs (used by update) after it.
LoopStartAtTake == "take"
LoopStart == IF cmd = "clone" THEN "inc" ELSE "take"

\* clone_worker.rs line 41: active.fetch_add before take_one
IncBeforeTake(w) ==
    /\ pc[w] = "inc"
    /\ active_workers' = active_workers + 1
    /\ pc' = [pc EXCEPT ![w] = "take"]
    /\ UNCHANGED <<toolVars, wtVars, pruneVars, cfgVars, warnings,
                   pending, completed, failed, total_discovered,
                   total_completed, exists, cloned, task, todo, cur, added,
                   initial_count, gitFailed>>

\* clone_queue.rs line 208: active.fetch_add after take_one returned a task
IncAfterTake(w) ==
    /\ pc[w] = "inc_some"
    /\ active_workers' = active_workers + 1
    /\ pc' = [pc EXCEPT ![w] = "clone"]
    /\ UNCHANGED <<toolVars, wtVars, pruneVars, cfgVars, warnings,
                   pending, completed, failed, total_discovered,
                   total_completed, exists, cloned, task, todo, cur, added,
                   initial_count, gitFailed>>

\* clone_worker.rs line 70: active.fetch_sub when take_one returned None
DecNone(w) ==
    /\ pc[w] = "dec_none"
    /\ active_workers' = active_workers - 1
    /\ pc' = [pc EXCEPT ![w] = "check"]
    /\ UNCHANGED <<toolVars, wtVars, pruneVars, cfgVars, warnings,
                   pending, completed, failed, total_discovered,
                   total_completed, exists, cloned, task, todo, cur, added,
                   initial_count, gitFailed>>

\* is_finished is true: the worker leaves its loop
WorkerExit(w) ==
    /\ pc[w] = "check"
    /\ IsFinished
    /\ pc' = [pc EXCEPT ![w] = "exited"]
    /\ UNCHANGED <<toolVars, wtVars, pruneVars, cfgVars, warnings,
                   pending, completed, failed, total_discovered,
                   total_completed, active_workers, exists, cloned, task, todo,
                   cur, added, initial_count, gitFailed>>

\* is_finished is false: wait_timeout(50 ms) ends, by signal or by timeout,
\* and the loop starts over
WorkerWait(w) ==
    /\ pc[w] = "check"
    /\ ~IsFinished
    /\ pc' = [pc EXCEPT ![w] = LoopStart]
    /\ UNCHANGED <<toolVars, wtVars, pruneVars, cfgVars, warnings,
                   pending, completed, failed, total_discovered,
                   total_completed, active_workers, exists, cloned, task, todo,
                   cur, added, initial_count, gitFailed>>

\* after clone_single_repo: active.fetch_sub, notify_all, loop
DecSome(w) ==
    /\ pc[w] = "dec_some"
    /\ active_workers' = active_workers - 1
    /\ task' = [task EXCEPT ![w] = NoTask]
    /\ pc' = [pc EXCEPT ![w] = LoopStart]
    /\ UNCHANGED <<toolVars, wtVars, pruneVars, cfgVars, warnings,
                   pending, completed, failed, total_discovered,
                   total_completed, exists, cloned, todo, cur, added,
                   initial_count, gitFailed>>

(* ------------------ execute_git_clone / execute_git_update ------------- *)

\* update.rs lines 20-36 and 85: the directories to seed from, with their
\* depth level; recursive mode is the mode with unlimited meta depth
DirsToCheck ==
    IF meta_depth = None
    THEN <<Item(Root, 0, TRUE)>> \o
         [i \in 1..Len(world[Root]) |-> Item(world[Root][i], 1, TRUE)]
    ELSE <<Item(Root, 0, TRUE)>>

\* update.rs lines 51-59: an entry of dir that is a git repo and that the
\* manifest of dir does not list
IsOrphanAnyRepo(dir, p) ==
    p \in cloned /\ Len(p) = Len(dir) + 1 /\ IsStrictPrefix(dir, p)
IsOrphan(dir, p) ==
    /\ p \in cloned
    /\ Len(p) = Len(dir) + 1
    /\ IsStrictPrefix(dir, p)
    /\ ~\E i \in 1..Len(world[dir]) : world[dir][i] = <<p[Len(p)]>>

\* update.rs lines 38-76: the first pass warns about the orphaned repos of
\* every directory to check whose manifest is found and parses
OrphanPass ==
    /\ pc[Main] = "orphans"
    /\ warnings' =
          {p \in exists :
              \E i \in 1..Len(DirsToCheck) :
                 LET dir == DirsToCheck[i].target_path
                 IN  /\ FindMetaConfigIn(dir)
                     /\ dir \notin broken
                     /\ IsOrphan(dir, p)}
    /\ pc' = [pc EXCEPT ![Main] = "start"]
    /\ UNCHANGED <<toolVars, wtVars, pruneVars, cfgVars, pending, completed,
                   failed, total_discovered, total_completed, active_workers,
                   exists, cloned, task, todo, cur, added, initial_count,
                   gitFailed>>

\* update.rs lines 96-107: dry run, the queue is drained and printed
DryRunDrain ==
    /\ pc[Main] = "seeded"
    /\ total_discovered > 0
    /\ dry_run
    /\ initial_count' = total_discovered
    /\ pending' = <<>>
    /\ pc' = [pc EXCEPT ![Main] = "dry_returned"]
    /\ UNCHANGED <<toolVars, wtVars, pruneVars, cfgVars, warnings, completed,
                   failed, total_discovered, total_completed, active_workers,
                   exists, cloned, task, todo, cur, added, gitFailed>>

\* clone.rs line 148, update.rs lines 83-87: seed the queue
SeedStart ==
    /\ pc[Main] = "start"
    /\ todo' = [todo EXCEPT ![Main] =
                   IF cmd = "clone" THEN <<Item(Root, 0, TRUE)>> ELSE DirsToCheck]
    /\ pc' = [pc EXCEPT ![Main] = "pfm"]
    /\ UNCHANGED <<toolVars, wtVars, pruneVars, cfgVars, warnings,
                   pending, completed, failed, total_discovered,
                   total_completed, active_workers, exists, cloned, task, cur,
                   added, initial_count, gitFailed>>

\* clone.rs lines 150-154, update.rs lines 89-94: nothing to clone
NoChildren ==
    /\ pc[Main] = "seeded"
    /\ total_discovered = 0
    /\ pc' = [pc EXCEPT ![Main] = "nochildren"]
    /\ initial_count' = 0
    /\ UNCHANGED <<toolVars, wtVars, pruneVars, cfgVars, warnings,
                   pending, completed, failed, total_discovered,
                   total_completed, active_workers, exists, cloned, task, todo,
                   cur, added, gitFailed>>

\* clone_with_queue, lines 28-87: spawn one thread per unit of parallelism
Spawn ==
    /\ pc[Main] = "seeded"
    /\ total_discovered > 0
    /\ ~dry_run
    /\ initial_count' = total_discovered
    /\ pc' = [p \in Procs |->
                 IF p = Main THEN "join"
                 ELSE IF p <= parallelism THEN LoopStart ELSE pc[p]]
    /\ UNCHANGED <<toolVars, wtVars, pruneVars, cfgVars, warnings,
                   pending, completed, failed, total_discovered,
                   total_completed, active_workers, exists, cloned, task, todo,
                   cur, added, gitFailed>>

\* clone_with_queue, lines 90-94: every handle joined, Ok(()) returned
PoolReturn ==
    /\ pc[Main] = "join"
    /\ \A w \in Workers : w <= parallelism => pc[w] = "exited"
    /\ pc' = [pc EXCEPT ![Main] = "returned"]
    /\ UNCHANGED <<toolVars, wtVars, pruneVars, cfgVars, warnings,
                   pending, completed, failed, total_discovered,
                   total_completed, active_workers, exists, cloned, task, todo,
                   cur, added, initial_count, gitFailed>>

(* ======================= worktree set lifecycle ======================== *)
(* One set name under <workspace>/.worktrees/.  The helpers of               *)
(* meta_git_lib (git_worktree_add, store_add, remove_worktree_repos, ...)   *)
(* and loop_lib::run are the environment: each call either succeeds with    *)
(* its effect or fails, the choice being nondeterministic.                  *)

\* the resolved repos_to_create lists explored; <<>> stands for a call with
\* neither --repo nor --all
RepoLists == {<<>>, <<"x">>, <<"x", "y">>, <<".", "x">>}

\* mod.rs lines 124-131, warn_or_bail: TRUE when it returns Err
WarnOrBailNeverErr(strict) == FALSE
WarnOrBailIsErr(strict) == strict

\* mod.rs lines 137-142, warn_store_error: TRUE when it returns Err; ok says
\* that the store operation returned Ok
WarnStoreErrorNeverErr(ok, strict) == FALSE
WarnStoreErrorIsErr(ok, strict) == ~ok /\ WarnOrBailIsErr(strict)

\* handle_create returns: to handle_ephemeral_exec (exec.rs line 138, with ?)
\* or to the caller of the create command
CreateEndsArmsGuard(ok) ==
    /\ wpc' = IF op = "exec" THEN "e_guard" ELSE "done"
    /\ result' = IF op = "exec" THEN result ELSE IF ok THEN "ok" ELSE "err"
CreateEndsGoesOn(ok) ==
    /\ wpc' = IF ~ok THEN "c_store"
              ELSE IF op = "exec" THEN "e_guard" ELSE "done"
    /\ result' = IF op = "exec" \/ ~ok THEN result ELSE "ok"
CreateEnds(ok) ==
    /\ wpc' = IF op = "exec" /\ ok THEN "e_guard" ELSE "done"
    /\ result' = IF op = "exec" /\ ok THEN result
                 ELSE IF ok THEN "ok" ELSE "err"

\* create.rs lines 66-75: if wt_dir.exists() { bail }
SetRootExistsUnchecked == FALSE
SetRootExists == wt_dir

\* create.rs lines 23-75: the checks made before anything is written
CreatePreconditions ==
    /\ wpc = "c_pre"
    /\ \E env_ok \in BOOLEAN :
          LET fails == \/ ~args.name_valid
                       \/ args.bad_meta /\ WarnOrBailIsErr(args.strict)
                       \/ args.from_ref /\ args.from_pr
                       \/ ~env_ok
                       \/ args.repos = <<>>
                       \/ SetRootExists
          IN  IF fails
              THEN /\ CreateEnds(FALSE)
                   /\ UNCHANGED <<created_repos, idx>>
              ELSE /\ wpc' = "c_dot"
                   /\ created_repos' = <<>>
                   /\ idx' = 1
                   /\ UNCHANGED result
    /\ UNCHANGED <<toolVars, cloneVars, pruneVars, op, args, wt_dir, worktrees, store, gitignore,
                   guard, exec_result, events, was_present>>

InRepos(alias) == \E i \in 1..Len(args.repos) : args.repos[i] = alias

\* create.rs lines 155-193: the worktree of the workspace root "." becomes the
\* set root
CreateDot ==
    /\ wpc = "c_dot"
    /\ IF ~InRepos(".")
       THEN /\ wpc' = "c_mkdir"
            /\ UNCHANGED <<wt_dir, worktrees, created_repos, result, events>>
       ELSE \E outcome \in {"ok", "io_err", "git_err"} :
              CASE outcome = "ok" ->
                     /\ wt_dir' = TRUE
                     /\ worktrees' = worktrees \cup {"."}
                     /\ created_repos' = Append(created_repos, ".")
                     /\ wpc' = "c_children"
                     /\ UNCHANGED <<result, events>>
                [] outcome = "io_err" ->
                     /\ CreateEnds(FALSE)
                     /\ UNCHANGED <<wt_dir, worktrees, created_repos, events>>
                [] outcome = "git_err" ->
                     /\ events' = Append(events, "worktree_add_failed")
                     /\ IF args.from_ref /\ ~WarnOrBailIsErr(args.strict)
                        THEN /\ wpc' = "c_mkdir"
                             /\ UNCHANGED <<wt_dir, worktrees, created_repos,
                                            result>>
                        ELSE /\ CreateEnds(FALSE)
                             /\ UNCHANGED <<wt_dir, worktrees, created_repos>>
    /\ UNCHANGED <<toolVars, cloneVars, pruneVars, op, args, store, gitignore, idx, guard,
                   exec_result, was_present>>

\* create.rs lines 195-198: create_dir_all(&wt_dir)?
CreateMkdir ==
    /\ wpc = "c_mkdir"
    /\ \E ok \in BOOLEAN :
          IF ok
          THEN /\ wt_dir' = TRUE
               /\ wpc' = "c_children"
               /\ UNCHANGED result
          ELSE /\ CreateEnds(FALSE)
               /\ UNCHANGED wt_dir
    /\ UNCHANGED <<toolVars, cloneVars, pruneVars, op, args, worktrees, store, gitignore,
                   created_repos, idx, guard, exec_result, events, was_present>>

\* create.rs lines 200-236: one child worktree per repo of repos_to_create
CreateChild ==
    /\ wpc = "c_children"
    /\ IF idx > Len(args.repos)
       THEN /\ wpc' = "c_gitignore"
            /\ UNCHANGED <<worktrees, created_repos, idx, result, events>>
       ELSE IF args.repos[idx] = "."
       THEN /\ idx' = idx + 1
            /\ UNCHANGED <<wpc, worktrees, created_repos, result, events>>
       ELSE \E ok \in BOOLEAN :
              IF ok
              THEN /\ worktrees' = worktrees \cup {args.repos[idx]}
                   /\ created_repos' = Append(created_repos, args.repos[idx])
                   /\ idx' = idx + 1
                   /\ UNCHANGED <<wpc, result, events>>
              ELSE /\ events' = Append(events, "worktree_add_failed")
                   /\ IF args.from_ref /\ ~WarnOrBailIsErr(args.strict)
                      THEN /\ idx' = idx + 1
                           /\ UNCHANGED <<wpc, worktrees, created_repos, result>>
                      ELSE /\ CreateEnds(FALSE)
                           /\ UNCHANGED <<worktrees, created_repos, idx>>
    /\ UNCHANGED <<toolVars, cloneVars, pruneVars, op, args, wt_dir, store, gitignore, guard,
                   exec_result, was_present>>

\* create.rs lines 238-243: ensure_worktrees_in_gitignore(...)?
CreateGitignore ==
    /\ wpc = "c_gitignore"
    /\ \E ok \in BOOLEAN :
          IF ok
          THEN /\ gitignore' = TRUE
               /\ wpc' = "c_store"
               /\ UNCHANGED result
          ELSE /\ CreateEnds(FALSE)
               /\ UNCHANGED gitignore
    /\ UNCHANGED <<toolVars, cloneVars, pruneVars, op, args, wt_dir, worktrees, store,
                   created_repos, idx, guard, exec_result, events, was_present>>

\* create.rs lines 245-255: warn_store_error(store_add(...), strict)?
CreateStore ==
    /\ wpc = "c_store"
    /\ \E ok \in BOOLEAN :
          IF ok
          THEN /\ store' = Some([repos |-> created_repos,
                                 ephemeral |-> (op = "exec")])
               /\ events' = Append(events, "store_add")
               /\ wpc' = "c_hook"
               /\ UNCHANGED result
          ELSE IF WarnStoreErrorIsErr(ok, args.strict)
          THEN /\ CreateEnds(FALSE)
               /\ UNCHANGED <<store, events>>
          ELSE /\ events' = Append(events, "store_warning")
               /\ wpc' = "c_hook"
               /\ UNCHANGED <<store, result>>
    /\ UNCHANGED <<toolVars, cloneVars, pruneVars, op, args, wt_dir, worktrees, gitignore,
                   created_repos, idx, guard, exec_result, was_present>>

\* create.rs lines 257-301: fire_post_create, output, Ok(())
CreateHook ==
    /\ wpc = "c_hook"
    /\ events' = events \o <<"post_create", "create_ok">>
    /\ CreateEnds(TRUE)
    /\ UNCHANGED <<toolVars, cloneVars, pruneVars, op, args, wt_dir, worktrees, store, gitignore,
                   created_repos, idx, guard, exec_result, was_present>>

\* handle_destroy returns: to EphemeralGuard::drop (exec.rs lines 64-75, an
\* error is only printed) or to the caller of the destroy command
DestroyEnds(ok) ==
    /\ wpc' = IF op = "exec" THEN "e_return" ELSE "done"
    /\ result' = IF op = "exec" THEN result ELSE IF ok THEN "ok" ELSE "err"

\* destroy.rs lines 28-47: unless force, bail when the filter
\* git_status_summary(..).map(|s| s.dirty).unwrap_or(false) keeps some repo;
\* args.dirty says that it keeps one.  The guard of exec passes force: true
\* (exec.rs lines 59-62).
DirtyRefusedNever == FALSE
DirtyRefused == ~(op = "exec" \/ args.force) /\ args.dirty

\* destroy.rs lines 14-47: name, set root, discovery and the dirty check
DestroyStart ==
    /\ wpc = "d_start"
    /\ \E env_ok \in BOOLEAN :
          LET fails == \/ ~args.name_valid
                       \/ ~env_ok
                       \/ ~wt_dir
                       \/ DirtyRefused
          IN  IF fails
              THEN DestroyEnds(FALSE)
              ELSE /\ wpc' = "d_remove"
                   /\ UNCHANGED result
    /\ UNCHANGED <<toolVars, cloneVars, pruneVars, op, args, wt_dir, worktrees, store, gitignore,
                   created_repos, idx, guard, exec_result, events, was_present>>

\* destroy.rs lines 49-50: remove_worktree_repos(...)?, children first and "."
\* last; removing the worktree "." removes the set root
DestroyRemove ==
    /\ wpc = "d_remove"
    /\ \/ /\ worktrees' = {}
          /\ wt_dir' = (wt_dir /\ "." \notin worktrees)
          /\ wpc' = "d_cleanup"
          /\ UNCHANGED result
       \/ \E kept \in (SUBSET worktrees) \ {{}} :
             /\ "." \in worktrees => "." \in kept
             /\ worktrees' = kept
             /\ DestroyEnds(FALSE)
             /\ UNCHANGED wt_dir
    /\ UNCHANGED <<toolVars, cloneVars, pruneVars, op, args, store, gitignore, created_repos, idx,
                   guard, exec_result, events, was_present>>

\* destroy.rs lines 52-55: remove_dir_all(&wt_dir).ok(), the error is dropped
DestroyCleanup ==
    /\ wpc = "d_cleanup"
    /\ \E ok \in BOOLEAN : wt_dir' = (wt_dir /\ ~ok)
    /\ wpc' = "d_store"
    /\ UNCHANGED <<toolVars, cloneVars, pruneVars, op, args, worktrees, store, gitignore,
                   created_repos, idx, guard, exec_result, result, events,
                   was_present>>

\* destroy.rs lines 57-58: warn_store_error(store_remove(&wt_dir))
DestroyStore ==
    /\ wpc = "d_store"
    /\ \E ok \in BOOLEAN :
          IF ok
          THEN /\ store' = None
               /\ events' = Append(events, "store_remove")
          ELSE UNCHANGED <<store, events>>
    /\ wpc' = "d_hook"
    /\ UNCHANGED <<toolVars, cloneVars, pruneVars, op, args, wt_dir, worktrees, gitignore,
                   created_repos, idx, guard, exec_result, result, was_present>>

\* destroy.rs lines 60-77: fire_post_destroy, output, Ok(())
DestroyHook ==
    /\ wpc = "d_hook"
    /\ events' = Append(events, "post_destroy")
    /\ DestroyEnds(TRUE)
    /\ UNCHANGED <<toolVars, cloneVars, pruneVars, op, args, wt_dir, worktrees, store, gitignore,
                   created_repos, idx, guard, exec_result, was_present>>

\* helpers::discover_and_validate_worktree(name)?: the set root must exist
\* and hold at least one worktree
DiscoverAndValidate(env_ok) == env_ok /\ wt_dir /\ worktrees # {}

\* exec.rs lines 79-102, handle_exec: --ephemeral goes to
\* handle_ephemeral_exec; otherwise the set is discovered and the command is
\* run in its worktrees
HandleExec ==
    /\ wpc = "h_exec"
    /\ IF args.ephemeral
       THEN /\ wpc' = "e_start"
            /\ UNCHANGED result
       ELSE \E env_ok, run_ok \in BOOLEAN :
               /\ wpc' = "done"
               /\ result' = IF DiscoverAndValidate(env_ok) /\ run_ok
                            THEN "ok" ELSE "err"
    /\ UNCHANGED <<toolVars, cloneVars, pruneVars, op, args, wt_dir, worktrees, store, gitignore,
                   created_repos, idx, guard, exec_result, events, was_present>>

\* exec.rs lines 104-111: name and command checks of handle_ephemeral_exec
ExecStart ==
    /\ wpc = "e_start"
    /\ IF ~args.name_valid \/ args.command_empty
       THEN /\ wpc' = "done"
            /\ result' = "err"
       ELSE /\ wpc' = "c_pre"
            /\ UNCHANGED result
    /\ UNCHANGED <<toolVars, cloneVars, pruneVars, op, args, wt_dir, worktrees, store, gitignore,
                   created_repos, idx, guard, exec_result, events, was_present>>

\* exec.rs lines 140-145: the guard exists once handle_create returned Ok
ExecGuard ==
    /\ wpc = "e_guard"
    /\ guard' = TRUE
    /\ wpc' = "e_resolve"
    /\ UNCHANGED <<toolVars, cloneVars, pruneVars, op, args, wt_dir, worktrees, store, gitignore,
                   created_repos, idx, exec_result, result, events, was_present>>

\* exec.rs lines 147-154: resolve_worktree_root(...)? and
\* discover_worktree_repos(...)?; an error leaves the function
ExecResolve ==
    /\ wpc = "e_resolve"
    /\ \E ok \in BOOLEAN :
          IF ok
          THEN /\ wpc' = "e_run"
               /\ UNCHANGED exec_result
          ELSE /\ exec_result' = "early_err"
               /\ wpc' = "e_unwind"
    /\ UNCHANGED <<toolVars, cloneVars, pruneVars, op, args, wt_dir, worktrees, store, gitignore,
                   created_repos, idx, guard, result, events, was_present>>

\* exec.rs line 167: loop_lib::run returns Ok or Err, or panics
ExecRun ==
    /\ wpc = "e_run"
    /\ \E r \in {"ok", "err", "panic"} : exec_result' = r
    /\ events' = Append(events, "exec_run")
    /\ wpc' = "e_unwind"
    /\ UNCHANGED <<toolVars, cloneVars, pruneVars, op, args, wt_dir, worktrees, store, gitignore,
                   created_repos, idx, guard, result, was_present>>

\* exec.rs lines 54-77 and 170: the guard's Drop runs handle_destroy when the
\* guard is dropped explicitly, when ? returns early and when a panic unwinds
DropOnlyWhenExplicit(exit) == exit \in {"ok", "err"}
DropRunsDestroy(exit) == exit \in {"ok", "err", "early_err", "panic"}

ExecDropGuard ==
    /\ wpc = "e_unwind"
    /\ guard
    /\ guard' = FALSE
    /\ IF DropRunsDestroy(exec_result)
       THEN /\ wpc' = "d_start"
            /\ events' = Append(events, "destroy_called")
       ELSE /\ wpc' = "e_return"
            /\ UNCHANGED events
    /\ UNCHANGED <<toolVars, cloneVars, pruneVars, op, args, wt_dir, worktrees, store, gitignore,
                   created_repos, idx, exec_result, result, was_present>>

\* exec.rs lines 172-174: exec_result?; Ok(()) -- or the panic goes on
ExecReturn ==
    /\ wpc = "e_return"
    /\ result' = IF exec_result = "ok" THEN "ok"
                 ELSE IF exec_result = "panic" THEN "panic" ELSE "err"
    /\ wpc' = "done"
    /\ UNCHANGED <<toolVars, cloneVars, pruneVars, op, args, wt_dir, worktrees, store, gitignore,
                   created_repos, idx, guard, exec_result, events, was_present>>

(* ----------------------- list, status and diff ------------------------ *)

\* list.rs lines 68-120: the label handle_list puts after the name of a set
\* that has a store entry
ListLabelZeroLeft(ttl) ==
    IF ttl = None THEN "plain"
    ELSE IF Unwrap(ttl) >= 0 THEN "[TTL]" ELSE "[expired]"
ListLabel(ttl) ==
    IF ttl = None THEN "plain"
    ELSE IF Unwrap(ttl) > 0 THEN "[TTL]" ELSE "[expired]"

\* list.rs lines 14-135, handle_list: the directories under the worktree root
\* that hold worktrees are printed with the metadata of their store entry
HandleList ==
    /\ wpc = "i_start"
    /\ op = "list"
    /\ \E env_ok \in BOOLEAN :
          IF ~env_ok
          THEN /\ result' = "err"
               /\ UNCHANGED events
          ELSE /\ result' = "ok"
               /\ events' =
                    IF ~wt_dir \/ worktrees = {}
                    THEN Append(events, "No worktrees found.")
                    ELSE IF IsSome(store)
                    THEN Append(events, ListLabel(args.ttl_remaining))
                    ELSE Append(events, "plain")
    /\ wpc' = "done"
    /\ UNCHANGED <<toolVars, cloneVars, pruneVars, op, args, wt_dir, worktrees, store, gitignore,
                   created_repos, idx, guard, exec_result, was_present>>

\* status.rs lines 11-80, handle_status: discover the set, read the status of
\* each worktree, print
HandleStatus ==
    /\ wpc = "i_start"
    /\ op = "status"
    /\ \E env_ok \in BOOLEAN :
          result' = IF DiscoverAndValidate(env_ok) THEN "ok" ELSE "err"
    /\ wpc' = "done"
    /\ UNCHANGED <<toolVars, cloneVars, pruneVars, op, args, wt_dir, worktrees, store, gitignore,
                   created_repos, idx, guard, exec_result, events, was_present>>

\* diff.rs lines 11-91, handle_diff: discover the set, read the diff stat of
\* each worktree against the base ref, print
HandleDiff ==
    /\ wpc = "i_start"
    /\ op = "diff"
    /\ \E env_ok \in BOOLEAN :
          result' = IF DiscoverAndValidate(env_ok) THEN "ok" ELSE "err"
    /\ wpc' = "done"
    /\ UNCHANGED <<toolVars, cloneVars, pruneVars, op, args, wt_dir, worktrees, store, gitignore,
                   created_repos, idx, guard, exec_result, events, was_present>>

(* ------------------------------ handle_add ----------------------------- *)

\* the repo lists given to add; the set that exists holds "x"
AddLists == {<<"y">>, <<"x">>, <<"y", "x">>, <<"y", "z">>, <<".", "y">>, <<"y", ".">>}

\* handle_add returns to the caller of the add command
AddEnds(ok) ==
    /\ wpc' = "done"
    /\ result' = IF ok THEN "ok" ELSE "err"

\* add.rs lines 18-24: repo_specs.iter().any(|r| r.alias == ".")
HasDotAliasUnchecked == FALSE
HasDotAlias == InRepos(".")

\* add.rs lines 36-37: the repos discovered in the set before the loop
Existing == worktrees \ {created_repos[i] : i \in 1..Len(created_repos)}

\* add.rs lines 12-37: name, the "." check, the set root, projects, discovery
AddStart ==
    /\ wpc = "a_start"
    /\ \E env_ok \in BOOLEAN :
          LET fails == \/ ~args.name_valid
                       \/ HasDotAlias
                       \/ ~env_ok
                       \/ ~wt_dir
          IN  IF fails
              THEN /\ AddEnds(FALSE)
                   /\ UNCHANGED <<created_repos, idx>>
              ELSE /\ wpc' = "a_children"
                   /\ created_repos' = <<>>
                   /\ idx' = 1
                   /\ UNCHANGED result
    /\ UNCHANGED <<toolVars, cloneVars, pruneVars, op, args, wt_dir, worktrees, store, gitignore,
                   guard, exec_result, events, was_present>>

\* add.rs lines 40-67: per requested repo the membership check, lookup_project
\* and git_worktree_add, each leaving through bail or ?
AddChild ==
    /\ wpc = "a_children"
    /\ IF idx > Len(args.repos)
       THEN /\ wpc' = "a_store"
            /\ UNCHANGED <<worktrees, created_repos, idx, result>>
       ELSE IF args.repos[idx] \in Existing
       THEN /\ AddEnds(FALSE)
            /\ UNCHANGED <<worktrees, created_repos, idx>>
       ELSE \E ok \in BOOLEAN :
              \* git worktree add refuses a destination that is a worktree
              IF ok /\ args.repos[idx] \notin worktrees
              THEN /\ worktrees' = worktrees \cup {args.repos[idx]}
                   /\ created_repos' = Append(created_repos, args.repos[idx])
                   /\ idx' = idx + 1
                   /\ UNCHANGED <<wpc, result>>
              ELSE /\ AddEnds(FALSE)
                   /\ UNCHANGED <<worktrees, created_repos, idx>>
    /\ UNCHANGED <<toolVars, cloneVars, pruneVars, op, args, wt_dir, store, gitignore, guard,
                   exec_result, events, was_present>>

\* add.rs lines 69-93: warn_store_error(store_extend_repos(...)), output, Ok(())
AddStore ==
    /\ wpc = "a_store"
    /\ \E ok \in BOOLEAN :
          IF ok /\ IsSome(store)
          THEN /\ store' = Some([Unwrap(store) EXCEPT
                                    !.repos = @ \o created_repos])
               /\ events' = Append(events, "store_extend")
          ELSE UNCHANGED <<store, events>>
    /\ AddEnds(TRUE)
    /\ UNCHANGED <<toolVars, cloneVars, pruneVars, op, args, wt_dir, worktrees, gitignore,
                   created_repos, idx, guard, exec_result, was_present>>

(* ----------------------------- handle_prune ---------------------------- *)

\* the path keys of the store in the order the loop visits them
Keys == <<"k1", "k2">>

\* what the prune sees on disk: project "p" has a manifest that lists x and
\* y, project "q" exists without a loadable manifest, project "gone" is missing
ProjectExists(project) == project # "gone"
LoadConfig(project) == IF project = "p" THEN Some(<<"x", "y">>) ELSE None

\* the store entries explored: project, repo aliases, the ephemeral flag and
\* ttl_seconds; every entry was created at second 0
EntryChoices ==
    [project : {"p", "q", "gone"},
     repos : {<<>>, <<"x">>, <<"z">>, <<"x", "z">>, <<"z", "w">>},
     ephemeral : BOOLEAN,
     ttl_seconds : {None, Some(1)}]

\* the values of Utc::now().timestamp() the prune runs at
Clock == {0, 1, 2}

\* store::entry_ttl_remaining: None iff ttl_seconds is absent, otherwise the
\* seconds left at `now`, negative once expired
EntryTtlRemaining(entry, now) ==
    IF entry.ttl_seconds = None THEN None
    ELSE Some(Unwrap(entry.ttl_seconds) - now)

\* prune.rs lines 40-49: config_cache.entry(project).or_insert_with(load)
CacheWith(cache, project) ==
    IF project \in DOMAIN cache THEN cache
    ELSE cache @@ (project :> LoadConfig(project))

\* prune.rs lines 55-59: the repos of the entry that the manifest lacks
MissingCount(repos, projects) ==
    Cardinality({i \in 1..Len(repos) :
                    ~\E j \in 1..Len(projects) : projects[j] = repos[i]})

\* prune.rs lines 33-66, check_repo_orphaned
CheckRepoOrphaned(entry, cache) ==
    LET config == CacheWith(cache, entry.project)[entry.project]
    IN  IF config = None THEN None
        ELSE IF /\ MissingCount(entry.repos, Unwrap(config)) > 0
                /\ MissingCount(entry.repos, Unwrap(config)) = Len(entry.repos)
             THEN Some("orphaned (all source repos removed from project)")
             ELSE None

\* prune.rs lines 136-149: the entry has a TTL and none of it remains
TtlExpiredNever(entry) == FALSE
TtlExpiredOrEphemeral(entry) ==
    \/ entry.ephemeral
    \/ /\ IsSome(EntryTtlRemaining(entry, prune_args.now))
       /\ Unwrap(EntryTtlRemaining(entry, prune_args.now)) <= 0
TtlExpired(entry) ==
    /\ IsSome(EntryTtlRemaining(entry, prune_args.now))
    /\ Unwrap(EntryTtlRemaining(entry, prune_args.now)) <= 0

PruneEntry(key, reason) == [path |-> key, reason |-> reason]

\* prune.rs lines 99-150: the classification loop over the store's entries
RECURSIVE ClassifyFrom(_, _, _, _, _)
ClassifyFrom(i, st, dirs, cache, acc) ==
    IF i > Len(Keys) THEN acc
    ELSE IF Keys[i] \notin DOMAIN st
    THEN ClassifyFrom(i + 1, st, dirs, cache, acc)
    ELSE LET key == Keys[i]
             entry == st[key]
         IN  IF key \notin dirs
             THEN ClassifyFrom(i + 1, st, dirs, cache,
                     Append(acc, PruneEntry(key, "orphaned (missing directory)")))
             ELSE IF ~ProjectExists(entry.project)
             THEN ClassifyFrom(i + 1, st, dirs, cache,
                     Append(acc, PruneEntry(key, "orphaned (source project missing)")))
             ELSE IF IsSome(CheckRepoOrphaned(entry, cache))
             THEN ClassifyFrom(i + 1, st, dirs, CacheWith(cache, entry.project),
                     Append(acc, PruneEntry(key,
                                    Unwrap(CheckRepoOrphaned(entry, cache)))))
             ELSE IF TtlExpired(entry)
             THEN ClassifyFrom(i + 1, st, dirs, CacheWith(cache, entry.project),
                     Append(acc, PruneEntry(key, "ttl_expired")))
             ELSE ClassifyFrom(i + 1, st, dirs,
                     CacheWith(cache, entry.project), acc)

Classify(st, dirs) == ClassifyFrom(1, st, dirs, <<>>, <<>>)

PruneEnds(ok) ==
    /\ ppc' = "done"
    /\ prune_result' = IF ok THEN "ok" ELSE "err"

\* prune.rs lines 167-183: in dry-run the selection is only reported
ReportOnlyNever == FALSE
ReportOnly == prune_args.dry_run

\* prune.rs lines 74-183: store_list, the empty store, the classification,
\* nothing to prune, the dry-run report
PruneStart ==
    /\ ppc = "p_start"
    /\ \E list_ok \in BOOLEAN :
          IF ~list_ok
          THEN /\ PruneEnds(FALSE)
               /\ UNCHANGED <<to_remove, prune_events>>
          ELSE IF DOMAIN store_worktrees = {}
          THEN /\ PruneEnds(TRUE)
               /\ UNCHANGED <<to_remove, prune_events>>
          ELSE /\ to_remove' = Classify(store_worktrees, set_dirs)
               /\ IF to_remove' = <<>>
                  THEN /\ PruneEnds(TRUE)
                       /\ prune_events' = Append(prune_events, "classified")
                  ELSE IF ReportOnly
                  THEN /\ PruneEnds(TRUE)
                       /\ prune_events' =
                              prune_events \o <<"classified", "report">>
                  ELSE /\ ppc' = "p_remove"
                       /\ prune_events' = Append(prune_events, "classified")
                       /\ UNCHANGED prune_result
    /\ pidx' = 1
    /\ removed' = <<>>
    /\ UNCHANGED <<toolVars, cloneVars, wtVars, removeVars,
                   prune_args, store_worktrees, set_dirs>>

\* prune.rs line 199: wt_path.exists() after the removal attempt
DirGoneAssumed(key, dirs) == TRUE
DirGone(key, dirs) == key \notin dirs

\* prune.rs lines 187-209: one selected entry: worktree remove and
\* remove_dir_all (errors dropped), then the entry is recorded as removed only
\* when its directory is gone
PruneRemoveOne ==
    /\ ppc = "p_remove"
    /\ IF pidx > Len(to_remove)
       THEN /\ ppc' = "p_store"
            /\ UNCHANGED <<set_dirs, removed, pidx, prune_result>>
       ELSE LET key == to_remove[pidx].path
            IN  \E deleted \in BOOLEAN :
                   /\ set_dirs' = IF deleted THEN set_dirs \ {key} ELSE set_dirs
                   /\ IF key \in set_dirs /\ ~DirGone(key, set_dirs')
                      THEN IF WarnOrBailIsErr(prune_args.strict)
                           THEN /\ PruneEnds(FALSE)
                                /\ UNCHANGED <<removed, pidx>>
                           ELSE /\ pidx' = pidx + 1
                                /\ UNCHANGED <<ppc, removed, prune_result>>
                      ELSE /\ removed' = Append(removed, to_remove[pidx])
                           /\ pidx' = pidx + 1
                           /\ UNCHANGED <<ppc, prune_result>>
    /\ UNCHANGED <<toolVars, cloneVars, wtVars, removeVars,
                   prune_args, store_worktrees, to_remove,
                   prune_events>>

RemovedKeys == {removed[i].path : i \in 1..Len(removed)}

\* prune.rs line 212-213: store_remove_batch drops the keys of removed
StoreAfterBatch ==
    [k \in DOMAIN store_worktrees \ RemovedKeys |-> store_worktrees[k]]

\* prune.rs lines 211-213: warn_store_error(store_remove_batch(&keys), strict)?
PruneStoreBatch ==
    /\ ppc = "p_store"
    /\ \E ok \in BOOLEAN :
          IF ok
          THEN /\ store_worktrees' = StoreAfterBatch
               /\ prune_events' = Append(prune_events, "store_remove_batch")
               /\ ppc' = "p_hook"
               /\ UNCHANGED prune_result
          ELSE IF WarnOrBailIsErr(prune_args.strict)
          THEN /\ PruneEnds(FALSE)
               /\ UNCHANGED <<store_worktrees, prune_events>>
          ELSE /\ ppc' = "p_hook"
               /\ UNCHANGED <<store_worktrees, prune_events, prune_result>>
    /\ UNCHANGED <<toolVars, cloneVars, wtVars, removeVars,
                   prune_args, set_dirs, to_remove, removed,
                   pidx>>

\* prune.rs lines 215-234: fire_post_prune, output, Ok(())
PruneHook ==
    /\ ppc = "p_hook"
    /\ prune_events' = Append(prune_events, "post_prune")
    /\ PruneEnds(TRUE)
    /\ UNCHANGED <<toolVars, cloneVars, wtVars, removeVars,
                   prune_args, store_worktrees, set_dirs,
                   to_remove, removed, pidx>>

(* ------------------------------- snapshot ------------------------------ *)
(* snapshot.rs: execute_snapshot_create and execute_snapshot_restore over  *)
(* the repos of one workspace.  capture_repo_state and restore_repo_state  *)
(* belong to meta_git_lib and are modelled from their description.         *)

\* the directories get_all_repo_directories yields, and the commits a HEAD
\* can be at
SnapRepos == {"r1", "r2"}
Shas == {"s1", "s2"}
RepoOnDisk == [present : BOOLEAN, sha : Shas, dirty : BOOLEAN]

\* snapshot::capture_repo_state: rev-parse HEAD and status --porcelain
CaptureRepoState(d) == [sha |-> d.sha, dirty |-> d.dirty]

\* the orders in which a HashMap can yield the keys in S
Orders(S) ==
    {q \in [1..Cardinality(S) -> S] :
        \A i, j \in 1..Cardinality(S) : q[i] = q[j] => i = j}

\* snapshot.rs lines 49-147, execute_snapshot_create: the name, the capture of
\* every directory that is a git repo, bail on nothing captured, save
ExecuteSnapshotCreate ==
    /\ spc = "idle"
    /\ snap = None
    /\ snap_result = "none"
    /\ \E env_ok, save_ok \in BOOLEAN, errs \in SUBSET SnapRepos :
          LET captured == {r \in SnapRepos : disk[r].present /\ r \notin errs}
          IN  IF ~env_ok \/ captured = {} \/ ~save_ok
              THEN /\ snap_result' = "err"
                   /\ UNCHANGED snap
              ELSE /\ snap_result' = "ok"
                   /\ snap' = Some([r \in captured |->
                                      CaptureRepoState(disk[r])])
    /\ UNCHANGED <<commitVars, cloneVars, wtVars, pruneVars,
                   disk, snap_args, spc,
                   repos_to_restore, missing_repos, sidx, success_count,
                   fail_count, stashes, checkouts, changed, disk_r,
                   snap_events>>

\* between the capture and the restore the user works in the workspace: a
\* repo gets a new HEAD, becomes dirty or clean, is deleted or comes back
WorkspaceChange ==
    /\ spc = "idle"
    /\ IsSome(snap)
    /\ \E r \in SnapRepos, d \in RepoOnDisk :
          /\ d # disk[r]
          /\ disk' = [disk EXCEPT ![r] = d]
    /\ changed' = TRUE
    /\ UNCHANGED <<commitVars, cloneVars, wtVars, pruneVars,
                   snap, snap_args, spc,
                   repos_to_restore, missing_repos, sidx, success_count,
                   fail_count, snap_result, stashes, checkouts, disk_r,
                   snap_events>>

\* snapshot.rs lines 229-244: the request's dry_run, and --force, --dry-run
\* and the name among the arguments
RestoreArgs ==
    [name : BOOLEAN, force : BOOLEAN, dry_run : BOOLEAN,
     dry_run_arg : BOOLEAN]

\* snapshot.rs line 235-240 and 300: dry_run = dry_run || "--dry-run" given
DryRunOptionOnly(a) == a.dry_run
DryRun(a) == a.dry_run \/ a.dry_run_arg

\* snapshot.rs lines 226-316: arguments, load_snapshot, the analysis loop, the
\* preview, the dry-run return and the confirmation
ExecuteSnapshotRestore ==
    /\ spc = "idle"
    /\ IsSome(snap)
    /\ \E a \in RestoreArgs, load_ok \in BOOLEAN, errs \in SUBSET SnapRepos,
          proceed \in {"yes", "no", "err"} :
          LET recorded == DOMAIN Unwrap(snap)
              present == {r \in recorded : disk[r].present}
          IN  /\ snap_args' = a
              /\ disk_r' = disk
              /\ IF ~a.name \/ ~load_ok
                 THEN /\ spc' = "done"
                      /\ snap_result' = "err"
                      /\ UNCHANGED <<repos_to_restore, missing_repos,
                                     snap_events>>
                 ELSE IF present \cap errs # {}
                 THEN \* line 269: capture_repo_state(&path)?
                      /\ spc' = "done"
                      /\ snap_result' = "err"
                      /\ snap_events' = Append(snap_events, "examine_failed")
                      /\ UNCHANGED <<repos_to_restore, missing_repos>>
                 ELSE /\ \E q \in Orders(present) :
                            repos_to_restore' =
                               [i \in 1..Len(q) |->
                                   [repo |-> q[i], dirty |-> disk[q[i]].dirty]]
                      /\ missing_repos' = recorded \ present
                      /\ IF DryRun(a)
                         THEN /\ spc' = "done"
                              /\ snap_result' = "ok"
                              /\ snap_events' = snap_events \o
                                                  <<"preview", "dry_run">>
                         ELSE IF ~a.force /\ proceed = "err"
                         THEN /\ spc' = "done"
                              /\ snap_result' = "err"
                              /\ snap_events' = Append(snap_events, "preview")
                         ELSE IF ~a.force /\ proceed = "no"
                         THEN /\ spc' = "done"
                              /\ snap_result' = "ok"
                              /\ snap_events' = snap_events \o
                                                  <<"preview", "aborted">>
                         ELSE /\ spc' = "restore"
                              /\ snap_events' = Append(snap_events, "preview")
                              /\ UNCHANGED snap_result
    /\ sidx' = 1
    /\ UNCHANGED <<commitVars, cloneVars, wtVars, pruneVars,
                   disk, snap, success_count,
                   fail_count, stashes, checkouts, changed>>

\* snapshot::restore_repo_state: a dirty tree is stashed before the checkout
NeedsStash(d) == d.dirty

\* snapshot.rs lines 256-270 and 323-330: the state a repo is restored to is
\* the one recorded under its own name
TargetStateOfAny(r) ==
    Unwrap(snap)[CHOOSE x \in DOMAIN Unwrap(snap) : TRUE]
TargetState(r) == Unwrap(snap)[r]

\* snapshot.rs lines 323-350: restore_repo_state(&path, state, force)? for
\* the next repo of repos_to_restore, then the counters.  The call ends in an
\* Err, in a result without success (the stash or the checkout failed) or in
\* a success.
RestoreRepo ==
    /\ spc = "restore"
    /\ sidx <= Len(repos_to_restore)
    /\ LET r == repos_to_restore[sidx].repo
           state == TargetState(r)
           stashed == [disk EXCEPT ![r].dirty = FALSE]
       IN  \E out \in {"err", "stash_failed", "checkout_failed", "success"} :
              /\ out = "stash_failed" => NeedsStash(disk[r])
              /\ IF out \in {"err", "stash_failed"}
                 THEN UNCHANGED <<disk, stashes, checkouts>>
                 ELSE /\ stashes' = IF NeedsStash(disk[r])
                                    THEN [stashes EXCEPT ![r] = @ + 1]
                                    ELSE stashes
                      /\ checkouts' = checkouts \cup {r}
                      /\ disk' = IF out = "success"
                                 THEN [stashed EXCEPT ![r].sha = state.sha]
                                 ELSE IF NeedsStash(disk[r]) THEN stashed
                                 ELSE disk
              /\ IF out = "err"
                 THEN /\ spc' = "done"
                      /\ snap_result' = "err"
                      /\ snap_events' = Append(snap_events, "restore_failed")
                      /\ UNCHANGED <<sidx, success_count, fail_count>>
                 ELSE /\ sidx' = sidx + 1
                      /\ success_count' = IF out = "success"
                                          THEN success_count + 1
                                          ELSE success_count
                      /\ fail_count' = IF out = "success" THEN fail_count
                                       ELSE fail_count + 1
                      /\ UNCHANGED <<spc, snap_result, snap_events>>
    /\ UNCHANGED <<commitVars, cloneVars, wtVars, pruneVars,
                   snap, snap_args,
                   repos_to_restore, missing_repos, changed, disk_r>>

\* snapshot.rs lines 352-363: the counts are printed, Ok
RestoreReport ==
    /\ spc = "restore"
    /\ sidx > Len(repos_to_restore)
    /\ spc' = "done"
    /\ snap_result' = "ok"
    /\ snap_events' = Append(snap_events, "report")
    /\ UNCHANGED <<commitVars, cloneVars, wtVars, pruneVars,
                   disk, snap, snap_args,
                   repos_to_restore, missing_repos, sidx, success_count,
                   fail_count, stashes, checkouts, changed, disk_r>>

(* ---------------------------- commit --edit ---------------------------- *)
(* commit.rs: execute_editor_commit and parse_multi_commit_file.  Text is a *)
(* sequence of pieces: a piece is one character ("=", "#", " ", "\n", ...)  *)
(* or a run of letters that holds none of these.                           *)

MaxStaged == 2
MaxLines == 4

\* commit.rs line 263: the literal "=========="
Marker == [i \in 1..10 |-> "="]

\* str::starts_with, str::ends_with
StartsWith(l, p) == Len(l) >= Len(p) /\ SubSeq(l, 1, Len(p)) = p
EndsWith(l, p) ==
    Len(l) >= Len(p) /\ SubSeq(l, Len(l) - Len(p) + 1, Len(l)) = p

\* str::trim_start_matches, str::trim_end_matches and str::trim
RECURSIVE TrimStartMatches(_, _)
TrimStartMatches(l, cs) ==
    IF l # <<>> /\ l[1] \in cs THEN TrimStartMatches(Tail(l), cs) ELSE l
RECURSIVE TrimEndMatches(_, _)
TrimEndMatches(l, cs) ==
    IF l # <<>> /\ l[Len(l)] \in cs
    THEN TrimEndMatches(SubSeq(l, 1, Len(l) - 1), cs)
    ELSE l
Trim(l) ==
    LET white == {" ", "\t", "\n", "\r"}
    IN  TrimEndMatches(TrimStartMatches(l, white), white)

\* str::lines: the text is cut at every "\n", a "\r" before it is dropped,
\* and what follows the last "\n" is a line if it is not empty
Lines(text) ==
    LET nl == {i \in 1..Len(text) : text[i] = "\n"}
        brk(k) == IF k = 0 THEN 0
                  ELSE CHOOSE i \in nl : Cardinality({j \in nl : j < i}) = k - 1
        line(k) == SubSeq(text, brk(k - 1) + 1, brk(k) - 1)
        rest == SubSeq(text, brk(Cardinality(nl)) + 1, Len(text))
    IN  [k \in 1..Cardinality(nl) |->
            IF EndsWith(line(k), <<"\r">>)
            THEN SubSeq(line(k), 1, Len(line(k)) - 1)
            ELSE line(k)]
           \o (IF rest = <<>> THEN <<>> ELSE <<rest>>)

\* the text of a sequence of lines, each followed by "\n"
RECURSIVE Unlines(_)
Unlines(ls) ==
    IF ls = <<>> THEN <<>> ELSE Head(ls) \o <<"\n">> \o Unlines(Tail(ls))

\* commit.rs lines 154-158: the head of the template
TemplateHead ==
    Unlines(<< <<"#", " ", "Meta", " ", "Multi-Commit">>,
               <<"#", " ", "Each", " ", "section", " ", "represents", " ",
                 "one", " ", "repository.">>,
               <<"#", " ", "Edit", " ", "the", " ", "message", " ", "below",
                 " ", "each", " ", "header.">>,
               <<"#", " ", "Delete", " ", "a", " ", "section", " ",
                 "entirely", " ", "or", " ", "leave", " ", "message", " ",
                 "empty", " ", "to", " ", "skip", " ", "that", " ", "repo.">>,
               <<"#">>,
               <<>> >>)

\* commit.rs line 166: the placeholder under each header
PlaceholderUncommented ==
    <<"Enter", " ", "commit", " ", "message", " ", "above", " ", "this",
      " ", "line">>
Placeholder ==
    <<"#", " ", "Enter", " ", "commit", " ", "message", " ", "above", " ",
      "this", " ", "line">>

\* files.join(", ")
RECURSIVE Join(_)
Join(files) ==
    IF files = <<>> THEN <<>>
    ELSE IF Len(files) = 1 THEN files[1]
    ELSE files[1] \o <<",", " ">> \o Join(Tail(files))

\* commit.rs lines 161-166: the section of one repo
TemplateSection(name, files) ==
    Unlines(<< Marker \o <<" ">> \o name \o <<" ">> \o Marker,
               <<"#", " ", ToString(Len(files)), " ", "file(s)", " ",
                 "staged:", " ">> \o Join(files),
               <<>>,
               Placeholder,
               <<>> >>)

\* commit.rs lines 152-167: the template of execute_editor_commit
RECURSIVE TemplateSections(_)
TemplateSections(repos) ==
    IF repos = <<>> THEN <<>>
    ELSE TemplateSection(repos[1][1], repos[1][2])
            \o TemplateSections(Tail(repos))
Template(repos) == TemplateHead \o TemplateSections(repos)

\* commit.rs line 263: a section header
IsSectionHeader(line) == StartsWith(line, Marker) /\ EndsWith(line, Marker)

\* commit.rs lines 272-276: the repo name of a header
SectionName(line) ==
    Trim(TrimEndMatches(TrimStartMatches(line, {"="}), {"="}))

\* commit.rs lines 265-270 and 287-292: the previous repo is saved if its
\* message is not empty after trim
SaveRepo(current_repo, current_message, acc) ==
    IF IsSome(current_repo) /\ Trim(current_message) # <<>>
    THEN Append(acc, <<Unwrap(current_repo), Trim(current_message)>>)
    ELSE acc

\* commit.rs line 279: a line that is added to the current message
IsMessageLineOrComment(line, current_repo) == IsSome(current_repo)
IsMessageLine(line, current_repo) ==
    ~StartsWith(line, <<"#">>) /\ IsSome(current_repo)

\* commit.rs lines 257-295, parse_multi_commit_file: the loop over the lines
RECURSIVE ParseFrom(_, _, _, _, _)
ParseFrom(ls, i, current_repo, current_message, acc) ==
    IF i > Len(ls) THEN SaveRepo(current_repo, current_message, acc)
    ELSE IF IsSectionHeader(ls[i])
    THEN ParseFrom(ls, i + 1, Some(SectionName(ls[i])), <<>>,
                   SaveRepo(current_repo, current_message, acc))
    ELSE IF IsMessageLine(ls[i], current_repo)
    THEN ParseFrom(ls, i + 1, current_repo,
                   current_message \o ls[i] \o <<"\n">>, acc)
    ELSE ParseFrom(ls, i + 1, current_repo, current_message, acc)
ParseMultiCommitFile(text) == ParseFrom(Lines(text), 1, None, <<>>, <<>>)

\* commit.rs lines 152-174: the template is written to META_COMMIT_EDITMSG
EditorTemplate ==
    /\ cpc = "start"
    /\ \E ok \in BOOLEAN :
          IF ok
          THEN /\ content' = Template(staged)
               /\ cpc' = "editor"
          ELSE /\ cpc' = "err"
               /\ UNCHANGED content
    /\ UNCHANGED <<snapVars, cloneVars, wtVars, pruneVars, staged, edit,
                   commits, committed>>

\* commit.rs lines 176-186: the editor runs; the user leaves the file as it
\* is or writes something else, and the editor's exit status is checked
EditorSession ==
    /\ cpc = "editor"
    /\ content' = IF IsSome(edit) THEN Unwrap(edit) ELSE content
    /\ \E ok \in BOOLEAN : cpc' = IF ok THEN "edited" ELSE "err"
    /\ UNCHANGED <<snapVars, cloneVars, wtVars, pruneVars, staged, edit,
                   commits, committed>>

\* commit.rs lines 188-198: the file is read and parsed; no commit, return
ReadAndParse ==
    /\ cpc = "edited"
    /\ \E ok \in BOOLEAN :
          IF ok
          THEN /\ commits' = ParseMultiCommitFile(content)
               /\ cpc' = IF commits' = <<>> THEN "done" ELSE "commit"
          ELSE /\ cpc' = "err"
               /\ UNCHANGED commits
    /\ UNCHANGED <<snapVars, cloneVars, wtVars, pruneVars, staged, edit,
                   content, committed>>

\* commit.rs lines 200-253: git commit -m message in each parsed repo, the
\* failures counted
ExecuteCommits ==
    /\ cpc = "commit"
    /\ \E failing \in SUBSET (1..Len(commits)) :
          committed' = SelectSeq([i \in 1..Len(commits) |->
                                     IF i \in failing THEN <<>> ELSE commits[i]],
                                 LAMBDA c : c # <<>>)
    /\ cpc' = "done"
    /\ UNCHANGED <<snapVars, cloneVars, wtVars, pruneVars, staged, edit,
                   content, commits>>

(* ------------------------------ specification -------------------------- *)

MetaDepths == {None} \cup {Some(d) : d \in 0..MaxMetaDepth}

CloneInit ==
    /\ world \in Worlds
    /\ broken \in {b \in BrokenChoices : b \subseteq DOMAIN world}
    /\ cmd \in {"clone", "update"}
    /\ parallelism \in IF cmd = "clone" THEN 0..MaxParallel ELSE {UpdateParallelism}
    \* clone.rs line 144: effective_meta_depth; update.rs line 79
    /\ meta_depth \in IF cmd = "clone" THEN MetaDepths ELSE {None, Some(0)}
    /\ orphans = {}
    /\ dry_run \in IF cmd = "clone" THEN {FALSE} ELSE BOOLEAN
    /\ warnings = {}
    /\ pending = <<>>
    /\ completed = {}
    /\ failed = {}
    /\ total_discovered = 0
    /\ total_completed = 0
    /\ active_workers = 0
    /\ \E pre \in PreexistChoices(world) :
          /\ exists = {Root} \cup pre
          /\ cloned = {Root} \cup pre
    /\ pc = [p \in Procs |->
                IF p # Main THEN "unspawned"
                ELSE IF cmd = "update" THEN "orphans" ELSE "start"]
    /\ task = [p \in Procs |-> NoTask]
    /\ todo = [p \in Procs |-> <<>>]
    /\ cur = [p \in Procs |-> Item(<<"-">>, 0, FALSE)]
    /\ added = [p \in Procs |-> 0]
    /\ initial_count = 0
    /\ gitFailed = {}

\* no worktree command runs
WtIdle ==
    /\ op = "none"
    /\ args = [name_valid |-> TRUE]
    /\ wpc = "done"
    /\ wt_dir = FALSE
    /\ worktrees = {}
    /\ store = None
    /\ gitignore = FALSE
    /\ created_repos = <<>>
    /\ idx = 1
    /\ guard = FALSE
    /\ exec_result = "none"
    /\ result = "none"
    /\ events = <<>>
    /\ was_present = FALSE

\* no prune runs
PruneIdle ==
    /\ prune_args = [dry_run |-> FALSE]
    /\ ppc = "done"
    /\ store_worktrees = <<>>
    /\ set_dirs = {}
    /\ to_remove = <<>>
    /\ removed = <<>>
    /\ pidx = 1
    /\ prune_result = "none"
    /\ prune_events = <<>>
    /\ remove_calls = 0
    /\ remove_result = NoRemove

\* no snapshot command runs
SnapIdle ==
    /\ disk = [r \in SnapRepos |->
                 [present |-> TRUE, sha |-> "s1", dirty |-> FALSE]]
    /\ snap = None
    /\ snap_args = [name |-> TRUE]
    /\ spc = "done"
    /\ repos_to_restore = <<>>
    /\ missing_repos = {}
    /\ sidx = 1
    /\ success_count = 0
    /\ fail_count = 0
    /\ snap_result = "none"
    /\ stashes = [r \in SnapRepos |-> 0]
    /\ checkouts = {}
    /\ changed = FALSE
    /\ disk_r = disk
    /\ snap_events = <<>>

\* no commit runs
CommitIdle ==
    /\ staged = <<>>
    /\ edit = None
    /\ content = <<>>
    /\ commits = <<>>
    /\ cpc = "done"
    /\ committed = <<>>

ToolsIdle == SnapIdle /\ CommitIdle

Init == CloneInit /\ WtIdle /\ PruneIdle /\ ToolsIdle

Next ==
    \/ OrphanPass
    \/ DryRunDrain
    \/ SeedStart
    \/ NoChildren
    \/ Spawn
    \/ PoolReturn
    \/ \E p \in Procs : PushFromMetaStep(p)
    \/ \E p \in Procs : PushCheckCompleted(p)
    \/ \E p \in Procs : PushInsert(p)
    \/ \E w \in Workers : IncBeforeTake(w)
    \/ \E w \in Workers : TakeOne(w)
    \/ \E w \in Workers : IncAfterTake(w)
    \/ \E w \in Workers : DecNone(w)
    \/ \E w \in Workers : WorkerExit(w)
    \/ \E w \in Workers : WorkerWait(w)
    \/ \E w \in Workers : CloneCheckExists(w)
    \/ \E w \in Workers : GitCloneOk(w)
    \/ \E w \in Workers : GitCloneFails(w)
    \/ \E w \in Workers : MarkCount(w)
    \/ \E w \in Workers : MarkCompletedInsert(w)
    \/ \E w \in Workers : MarkFailedInsert(w)
    \/ \E w \in Workers : DecSome(w)

Spec == Init /\ [][Next]_vars

\* no clone or update runs
CloneIdle ==
    /\ world = WorldNested
    /\ broken = {}
    /\ cmd = "none"
    /\ parallelism = 0
    /\ meta_depth = None
    /\ orphans = {}
    /\ dry_run = FALSE
    /\ warnings = {}
    /\ pending = <<>>
    /\ completed = {}
    /\ failed = {}
    /\ total_discovered = 0
    /\ total_completed = 0
    /\ active_workers = 0
    /\ exists = {Root}
    /\ cloned = {Root}
    /\ pc = [p \in Procs |-> "idle"]
    /\ task = [p \in Procs |-> NoTask]
    /\ todo = [p \in Procs |-> <<>>]
    /\ cur = [p \in Procs |-> Item(<<"-">>, 0, FALSE)]
    /\ added = [p \in Procs |-> 0]
    /\ initial_count = 0
    /\ gitFailed = {}

\* what entry_ttl_remaining yields for the store entry of the set when the
\* command runs (as args.dirty is what git status yields)
TtlChoices == {None, Some(-1), Some(0), Some(1)}

\* the arguments explored for each worktree command
ExecArgs ==
    [name_valid : BOOLEAN, command_empty : BOOLEAN, repos : RepoLists,
     from_ref : BOOLEAN, from_pr : {FALSE}, bad_meta : {FALSE},
     \* exec.rs lines 130 and 138: strict and global_strict are false
     strict : {FALSE}, force : {TRUE}, dirty : BOOLEAN,
     ephemeral : BOOLEAN, ttl_remaining : TtlChoices]
CreateArgs ==
    [name_valid : BOOLEAN, command_empty : {FALSE}, repos : RepoLists,
     from_ref : BOOLEAN, from_pr : BOOLEAN, bad_meta : BOOLEAN,
     strict : BOOLEAN, force : {FALSE}, dirty : {FALSE},
     ephemeral : {FALSE}, ttl_remaining : {None}]
DestroyArgs ==
    [name_valid : BOOLEAN, command_empty : {FALSE}, repos : {<<>>},
     from_ref : {FALSE}, from_pr : {FALSE}, bad_meta : {FALSE},
     strict : {FALSE}, force : BOOLEAN, dirty : BOOLEAN,
     ephemeral : {FALSE}, ttl_remaining : {None}]

AddArgs ==
    [name_valid : BOOLEAN, command_empty : {FALSE}, repos : AddLists,
     from_ref : {FALSE}, from_pr : {FALSE}, bad_meta : {FALSE},
     strict : {FALSE}, force : {FALSE}, dirty : {FALSE},
     ephemeral : {FALSE}, ttl_remaining : TtlChoices]
\* list, status and diff only name the set
InspectArgs ==
    [name_valid : BOOLEAN, command_empty : {FALSE}, repos : {<<>>},
     from_ref : {FALSE}, from_pr : {FALSE}, bad_meta : {FALSE},
     strict : {FALSE}, force : {FALSE}, dirty : {FALSE},
     ephemeral : {FALSE}, ttl_remaining : TtlChoices]

WtInit ==
    /\ op \in {"exec", "create", "destroy", "add", "list", "status", "diff"}
    /\ args \in CASE op = "exec" -> ExecArgs
                [] op = "create" -> CreateArgs
                [] op = "destroy" -> DestroyArgs
                [] op = "add" -> AddArgs
                [] OTHER -> InspectArgs
    /\ wpc = CASE op = "exec" -> "h_exec"
              [] op = "create" -> "c_pre"
              [] op = "destroy" -> "d_start"
              [] op = "add" -> "a_start"
              [] OTHER -> "i_start"
    /\ was_present \in BOOLEAN
    /\ wt_dir = was_present
    /\ worktrees = IF was_present THEN {"x"} ELSE {}
    /\ store = IF was_present
               THEN Some([repos |-> <<"x">>, ephemeral |-> FALSE])
               ELSE None
    /\ gitignore = was_present
    /\ created_repos = <<>>
    /\ idx = 1
    /\ guard = FALSE
    /\ exec_result = "none"
    /\ result = "none"
    /\ events = <<>>

WtNext ==
    \/ CreatePreconditions
    \/ CreateDot
    \/ CreateMkdir
    \/ CreateChild
    \/ CreateGitignore
    \/ CreateStore
    \/ CreateHook
    \/ DestroyStart
    \/ DestroyRemove
    \/ DestroyCleanup
    \/ DestroyStore
    \/ DestroyHook
    \/ HandleExec
    \/ ExecStart
    \/ ExecGuard
    \/ ExecResolve
    \/ ExecRun
    \/ ExecDropGuard
    \/ ExecReturn
    \/ AddStart
    \/ AddChild
    \/ AddStore
    \/ HandleList
    \/ HandleStatus
    \/ HandleDiff

WtStart == CloneIdle /\ WtInit /\ PruneIdle /\ ToolsIdle

WtSpec == WtStart /\ [][WtNext]_vars

\* a prune command on a store of up to Len(Keys) entries
PruneInit ==
    /\ \E ks \in SUBSET {Keys[i] : i \in 1..Len(Keys)} :
          /\ store_worktrees \in [ks -> EntryChoices]
          /\ set_dirs \in SUBSET ks
    /\ prune_args \in [dry_run : BOOLEAN, strict : BOOLEAN, now : Clock,
                        store0 : {store_worktrees}, dirs0 : {set_dirs}]
    /\ ppc = "p_start"
    /\ to_remove = <<>>
    /\ removed = <<>>
    /\ pidx = 1
    /\ prune_result = "none"
    /\ prune_events = <<>>
    /\ remove_calls = 0
    /\ remove_result = NoRemove

(* --------------- remove and prune calls on one store ------------------- *)
(* A run of commands on a store some of whose set directories were deleted *)
(* outside the tool: every command starts when the one before has ended.   *)

\* the entries of that store: sets of project "p", with and without a TTL
StaleEntries ==
    [project : {"p"}, repos : {<<"x">>, <<"z">>}, ephemeral : {FALSE},
     ttl_seconds : {None, Some(1)}]

RemoveResult(key, outcome) == [key |-> key, outcome |-> outcome]

StoreWithout(key) ==
    [k \in DOMAIN store_worktrees \ {key} |-> store_worktrees[k]]

\* destroy.rs lines 22-24: if !wt_dir.exists() { bail!("... not found ...") }
SetRootAbsentNever(key) == FALSE
SetRootAbsent(key) == key \notin set_dirs

\* destroy.rs lines 13-78, handle_destroy for the set stored under key, from
\* start to return: a set root that is absent ends it with the not-found
\* error; discovery, the dirty check and remove_worktree_repos can end it
\* with an error; then remove_dir_all (its error is dropped), store_remove
\* (its error is a warning) and the hook
RemoveCall(key) ==
    /\ ppc = "done"
    /\ remove_calls < MaxRemoves
    /\ remove_calls' = remove_calls + 1
    /\ IF SetRootAbsent(key)
       THEN /\ remove_result' = RemoveResult(key, "not_found")
            /\ UNCHANGED <<store_worktrees, set_dirs>>
       ELSE \/ /\ remove_result' = RemoveResult(key, "err")
               /\ UNCHANGED <<store_worktrees, set_dirs>>
            \/ \E dir_gone, store_ok \in BOOLEAN :
                  /\ set_dirs' = IF dir_gone THEN set_dirs \ {key}
                                 ELSE set_dirs
                  /\ store_worktrees' = IF store_ok THEN StoreWithout(key)
                                        ELSE store_worktrees
                  /\ remove_result' = RemoveResult(key, "ok")
    /\ UNCHANGED <<toolVars, cloneVars, wtVars, prune_args, ppc, to_remove,
                   removed, pidx, prune_result, prune_events>>

\* prune.rs lines 68-73, handle_prune called on the store as it is now
PruneCall ==
    /\ ppc = "done"
    /\ prune_args' \in [dry_run : BOOLEAN, strict : BOOLEAN, now : {0, 2},
                         store0 : {store_worktrees}, dirs0 : {set_dirs}]
    /\ ppc' = "p_start"
    /\ to_remove' = <<>>
    /\ removed' = <<>>
    /\ pidx' = 1
    /\ prune_result' = "none"
    /\ prune_events' = <<>>
    /\ UNCHANGED <<toolVars, cloneVars, wtVars, removeVars, store_worktrees,
                   set_dirs>>

StaleInit ==
    /\ \E ks \in SUBSET {Keys[i] : i \in 1..Len(Keys)} :
          /\ store_worktrees \in [ks -> StaleEntries]
          /\ set_dirs \in SUBSET ks
    /\ prune_args = [dry_run |-> FALSE, strict |-> FALSE, now |-> 0,
                     store0 |-> store_worktrees, dirs0 |-> set_dirs]
    /\ ppc = "done"
    /\ to_remove = <<>>
    /\ removed = <<>>
    /\ pidx = 1
    /\ prune_result = "none"
    /\ prune_events = <<>>
    /\ remove_calls = 0
    /\ remove_result = NoRemove

StaleNext ==
    \/ \E i \in 1..Len(Keys) : RemoveCall(Keys[i])
    \/ PruneCall
    \/ PruneStart
    \/ PruneRemoveOne
    \/ PruneStoreBatch
    \/ PruneHook

PruneNext ==
    \/ PruneStart
    \/ PruneRemoveOne
    \/ PruneStoreBatch
    \/ PruneHook

PruneStartState == CloneIdle /\ WtIdle /\ PruneInit /\ ToolsIdle

PruneSpec == PruneStartState /\ [][PruneNext]_vars

StaleStart == CloneIdle /\ WtIdle /\ StaleInit /\ ToolsIdle

StaleSpec == StaleStart /\ [][StaleNext]_vars

\* every step a worker thread can take
\* a workspace of SnapRepos in any state, no snapshot taken yet
SnapInit ==
    /\ disk \in [SnapRepos -> RepoOnDisk]
    /\ snap = None
    /\ snap_args = [name |-> TRUE]
    /\ spc = "idle"
    /\ repos_to_restore = <<>>
    /\ missing_repos = {}
    /\ sidx = 1
    /\ success_count = 0
    /\ fail_count = 0
    /\ snap_result = "none"
    /\ stashes = [r \in SnapRepos |-> 0]
    /\ checkouts = {}
    /\ changed = FALSE
    /\ disk_r = disk
    /\ snap_events = <<>>

SnapNext ==
    \/ ExecuteSnapshotCreate
    \/ WorkspaceChange
    \/ ExecuteSnapshotRestore
    \/ RestoreRepo
    \/ RestoreReport

SnapStart == CloneIdle /\ WtIdle /\ PruneIdle /\ SnapInit /\ CommitIdle

\* repos_with_changes: the names of the staged repos and of their files
StagedLists ==
    LET names == {<<".">>, <<"a">>, <<"#", "a">>, <<"=", "a", "=">>}
        files == {<<>>, << <<"f">> >>, << <<"f">>, <<"#", "g">> >>}
    IN  UNION {[1..n -> names \X files] : n \in 1..MaxStaged}

\* the files a user may leave: up to MaxLines lines, each blank, text, a
\* comment, a "#" after a space, a header, or a line that only starts like one
EditedTexts ==
    LET lines == { <<>>,
                   <<" ">>,
                   <<"m">>,
                   <<" ", "m", " ", " ", "n", " ">>,
                   <<"#", "c">>,
                   <<" ", "#", "c">>,
                   Marker \o <<" ", "a", " ">> \o Marker,
                   Marker \o <<" ", "b", " ">> \o Marker,
                   Marker,
                   Marker \o <<" ", "a">> }
    IN  {Unlines(ls) : ls \in UNION {[1..n -> lines] : n \in 0..MaxLines}}

\* commit --edit with the template left as it is, for every list of staged
\* repos, or with a file written by the user
CommitInit ==
    /\ \/ /\ staged \in StagedLists
          /\ edit = None
       \/ /\ staged = << <<<<"a">>, << <<"f">> >> >> >>
          /\ edit \in {Some(t) : t \in EditedTexts}
    /\ content = <<>>
    /\ commits = <<>>
    /\ cpc = "start"
    /\ committed = <<>>

CommitNext ==
    \/ EditorTemplate
    \/ EditorSession
    \/ ReadAndParse
    \/ ExecuteCommits

CommitStart == CloneIdle /\ WtIdle /\ PruneIdle /\ SnapIdle /\ CommitInit

CommitSpec == CommitStart /\ [][CommitNext]_vars

SnapSpec == SnapStart /\ [][SnapNext]_vars

\* update in a workspace that holds git repos its manifests do not list:
\* "o" next to the first-level projects and inside those already on disk
UpdateInit ==
    /\ world \in Worlds
    /\ broken \in {b \in BrokenChoices : b \subseteq DOMAIN world}
    /\ cmd = "update"
    /\ parallelism = UpdateParallelism
    /\ meta_depth \in {None, Some(0)}
    /\ dry_run \in BOOLEAN
    /\ warnings = {}
    /\ pending = <<>>
    /\ completed = {}
    /\ failed = {}
    /\ total_discovered = 0
    /\ total_completed = 0
    /\ active_workers = 0
    /\ \E pre \in PreexistChoices(world) :
          /\ orphans \in (SUBSET ({<<"o">>} \cup {d \o <<"o">> : d \in pre}))
                          \ {{}}
          /\ exists = {Root} \cup pre \cup orphans
          /\ cloned = {Root} \cup pre \cup orphans
    /\ pc = [p \in Procs |-> IF p = Main THEN "orphans" ELSE "unspawned"]
    /\ task = [p \in Procs |-> NoTask]
    /\ todo = [p \in Procs |-> <<>>]
    /\ cur = [p \in Procs |-> Item(<<"-">>, 0, FALSE)]
    /\ added = [p \in Procs |-> 0]
    /\ initial_count = 0
    /\ gitFailed = {}

UpdateNext ==
    \/ OrphanPass
    \/ DryRunDrain
    \/ SeedStart
    \/ NoChildren
    \/ Spawn
    \/ PoolReturn
    \/ \E p \in Procs : PushFromMetaStep(p)
    \/ \E p \in Procs : PushCheckCompleted(p)
    \/ \E p \in Procs : PushInsert(p)
    \/ \E w \in Workers : TakeOne(w)
    \/ \E w \in Workers : IncAfterTake(w)
    \/ \E w \in Workers : WorkerExit(w)
    \/ \E w \in Workers : WorkerWait(w)
    \/ \E w \in Workers : CloneCheckExists(w)
    \/ \E w \in Workers : GitCloneOk(w)
    \/ \E w \in Workers : GitCloneFails(w)
    \/ \E w \in Workers : MarkCount(w)
    \/ \E w \in Workers : MarkCompletedInsert(w)
    \/ \E w \in Workers : MarkFailedInsert(w)
    \/ \E w \in Workers : DecSome(w)

UpdateStart == UpdateInit /\ WtIdle /\ PruneIdle /\ ToolsIdle

UpdateSpec == UpdateStart /\ [][UpdateNext]_vars

WorkerNext(w) ==
    \/ PushFromMetaStep(w) \/ PushCheckCompleted(w) \/ PushInsert(w)
    \/ IncBeforeTake(w) \/ TakeOne(w) \/ IncAfterTake(w) \/ DecNone(w)
    \/ WorkerExit(w) \/ WorkerWait(w) \/ CloneCheckExists(w)
    \/ GitCloneOk(w) \/ GitCloneFails(w) \/ MarkCount(w)
    \/ MarkCompletedInsert(w) \/ MarkFailedInsert(w) \/ DecSome(w)

\* every step of the thread that runs execute_git_clone / execute_git_update
MainNext ==
    \/ OrphanPass \/ DryRunDrain \/ SeedStart \/ NoChildren \/ Spawn \/ PoolReturn
    \/ PushFromMetaStep(Main) \/ PushCheckCompleted(Main) \/ PushInsert(Main)

\* The operating system schedules every runnable thread again and again, the
\* 50 ms wait_timeout always ends, and every git subprocess terminates.
FairSpec ==
    /\ Spec
    /\ WF_vars(MainNext)
    /\ \A w \in Workers : WF_vars(WorkerNext(w))

(* ------------------------------- claims -------------------------------- *)

NoDuplicateInPending ==
    \A i, j \in 1..Len(pending) :
        pending[i].target_path = pending[j].target_path => i = j

\* C1: under any interleaving of push, take_one, mark_completed and
\* mark_failed by concurrent workers, no target_path is at the same time in
\* pending and in completed, and no target_path appears twice in pending.
C1_QueueUniqueness ==
    /\ PendingPaths \cap completed = {}
    /\ NoDuplicateInPending

\* C2: in every reachable state a target_path is in at most one of pending,
\* completed and failed.
C2_AtMostOneCollection ==
    /\ PendingPaths \cap completed = {}
    /\ PendingPaths \cap failed = {}
    /\ completed \cap failed = {}

\* C3: at every observable state, the states between the steps of
\* mark_completed and mark_failed included, done = |completed| + |failed| and
\* discovered >= done.
C3_ProgressConservation ==
    /\ total_completed = Cardinality(completed) + Cardinality(failed)
    /\ total_discovered >= total_completed

\* C4: with at least one worker, a finite set of manifests and terminating
\* git subprocesses, under fair scheduling the pool of clone_worker.rs
\* eventually returns, and then pending is empty and done = discovered.
C4_PoolTerminates ==
    (cmd = "clone" /\ parallelism >= 1 /\ pc[Main] = "join")
        ~> (/\ pc[Main] = "returned"
            /\ pending = <<>>
            /\ total_completed = total_discovered)

C4_Witness ==
    /\ cmd = "clone"
    /\ parallelism >= 1
    /\ pc[Main] = "returned"
    /\ total_discovered > initial_count
    /\ failed # {}

\* C5: clone_with_queue of clone_worker.rs returns only in a state where
\* pending is empty and the active-worker count is 0, for every parallelism
\* value a caller can pass, 0 included.
C5_ReturnsOnlyWhenFinished ==
    (cmd = "clone" /\ pc[Main] = "returned")
        => (pending = <<>> /\ active_workers = 0)

\* the tasks that are in the queue or in a worker's hands
HeldTasks == {task[w] : w \in {v \in Workers : task[v] # NoTask}}
QueuedTasks == {pending[i] : i \in 1..Len(pending)} \cup HeldTasks

\* C6: when meta_depth is set, every task push_from_meta enqueues (from the
\* seed manifest, through recursion into existing directories, or through
\* mark_completed) has depth_level <= meta_depth.
C6_DepthBound ==
    IsSome(meta_depth) =>
        \A t \in QueuedTasks : t.depth_level <= Unwrap(meta_depth)

C6_Witness ==
    /\ meta_depth = Some(1)
    /\ pc[Main] = "returned"
    /\ <<"a">> \in cloned \ completed
    /\ <<"a", "b">> \in completed
    /\ <<"a", "b", "c">> \notin exists

\* the target paths of the projects of the first-level manifest
FirstLevel == {Root \o world[Root][i] : i \in 1..Len(world[Root])}

\* C7: in non-recursive mode (meta_depth = 0) of clone or update only projects
\* of the first-level manifest are ever enqueued: neither completing a task
\* nor an existing first-level directory with its own manifest adds a task.
C7_NonRecursiveFirstLevelOnly ==
    meta_depth = Some(0) =>
        /\ \A t \in QueuedTasks :
              t.target_path \in FirstLevel /\ t.depth_level = 0
        /\ pc[Main] \in {"join", "returned"} => total_discovered = initial_count

C7_Witness ==
    /\ cmd = "update"
    /\ meta_depth = Some(0)
    /\ pc[Main] = "returned"
    /\ <<"a">> \in completed
    /\ <<"b">> \in cloned \ completed
    /\ <<"b">> \in DOMAIN world
    /\ <<"b", "c">> \notin exists

\* C8: a failing task never makes clone_with_queue return an error and never
\* stops the pool: its path is recorded in failed, no worker leaves while a
\* task is pending or held, and at the return every task has been processed.
C8_FailureIsolated ==
    cmd = "clone" =>
        /\ \A p \in gitFailed :
              \/ p \in failed
              \/ \E w \in Workers : /\ task[w].target_path = p
                                    /\ pc[w] \in {"mf_count", "mf_insert"}
        /\ (gitFailed # {} /\ \E w \in Workers : pc[w] = "exited")
              => (pending = <<>> /\ HeldTasks = {})
        /\ (gitFailed # {} /\ pc[Main] = "returned")
              => total_completed = total_discovered

C8_Witness ==
    /\ cmd = "clone"
    /\ pc[Main] = "returned"
    /\ <<"a">> \in failed
    /\ <<"b">> \in completed
    /\ <<"b", "c">> \in completed
    /\ total_discovered > initial_count

(* ------------------------ claims: worktree sets ------------------------ *)

Happened(e) == \E i \in 1..Len(events) : events[i] = e

\* C9: for exec --ephemeral whose create step succeeded, the destroy of the
\* set is run before handle_exec returns on every path (the command failing,
\* worktree discovery failing, a panic), and the command's error is still
\* what the caller gets after the cleanup.
C9_EphemeralCleanupRuns ==
    (op = "exec" /\ wpc = "done" /\ Happened("create_ok"))
        => /\ Happened("destroy_called")
           /\ ~guard
           /\ exec_result \in {"err", "early_err"} => result = "err"
           /\ exec_result = "panic" => result = "panic"

C9_Witness ==
    /\ op = "exec"
    /\ wpc = "done"
    /\ Happened("create_ok")
    /\ exec_result = "err"
    /\ result = "err"
    /\ Happened("post_destroy")
    /\ ~wt_dir
    /\ store = None

\* C10: for a set name that did not exist before, whenever exec --ephemeral
\* returns (success, or an error of its create, exec or remove step, a create
\* that fails after some child worktrees were made included) no directory
\* remains at the set root and the store has no entry for it.
C10_EphemeralAtomic ==
    (op = "exec" /\ wpc = "done" /\ ~was_present)
        => (~wt_dir /\ store = None)

\* the set as it was before the command started
InitialWorktrees == IF was_present THEN {"x"} ELSE {}
InitialStore ==
    IF was_present THEN Some([repos |-> <<"x">>, ephemeral |-> FALSE]) ELSE None
SetUntouched ==
    /\ wt_dir = was_present
    /\ worktrees = InitialWorktrees
    /\ store = InitialStore
    /\ gitignore = was_present

AddFailedNow == Len(events') = Len(events) + 1
                    /\ events'[Len(events')] = "worktree_add_failed"
CreatedSet == {created_repos[i] : i \in 1..Len(created_repos)}

\* C11: create with --from-ref in which git worktree add fails for a repo.
\* Default mode: the failure does not end the command (the repo is skipped
\* and the loop goes on), a command that reaches its end succeeds, and a
\* store entry that is written lists exactly the repos whose worktree was
\* created.  Strict mode: the failure ends the command with an error and no
\* store entry is written.
C11_FromRefSkipOrBail ==
    /\ [][(op = "create" /\ args.from_ref /\ AddFailedNow) =>
             IF args.strict
             THEN wpc' = "done" /\ result' = "err" /\ store' = None
             ELSE wpc' \in {"c_mkdir", "c_children"} /\ result' = "none"]_vars
    /\ [](op = "create" /\ args.from_ref /\ Happened("worktree_add_failed") =>
             /\ args.strict => store = None
             /\ (~args.strict /\ Happened("store_add")) =>
                   /\ Unwrap(store).repos = created_repos
                   /\ CreatedSet = worktrees
                   /\ \E i \in 1..Len(args.repos) : args.repos[i] \notin CreatedSet
             /\ (~args.strict /\ wpc = "done" /\ Happened("create_ok")) =>
                   result = "ok")

C11_Witness ==
    /\ op = "create"
    /\ args.from_ref
    /\ ~args.strict
    /\ args.repos = <<"x", "y">>
    /\ Happened("worktree_add_failed")
    /\ wpc = "done"
    /\ result = "ok"
    /\ store = Some([repos |-> <<"x">>, ephemeral |-> FALSE])
    /\ worktrees = {"x"}

\* C12: a create that fails a precondition check (invalid name, --from-ref
\* with --from-pr, neither --repo nor --all, set root already there) returns
\* an error and creates no directory or worktree, leaves .gitignore and the
\* store alone; an existing set of that name is unchanged.
C12_CreatePreconditionsNoEffect ==
    (/\ op = "create"
     /\ wpc = "done"
     /\ \/ ~args.name_valid
        \/ args.from_ref /\ args.from_pr
        \/ args.repos = <<>>
        \/ was_present)
        => /\ result = "err"
           /\ SetUntouched
           /\ created_repos = <<>>
           /\ events = <<>>

C12_Witness ==
    /\ op = "create"
    /\ wpc = "done"
    /\ was_present
    /\ args.name_valid
    /\ args.repos = <<"x", "y">>
    /\ result = "err"
    /\ worktrees = {"x"}
    /\ IsSome(store)

\* C13: an add whose requested repos include "." fails before any worktree is
\* created and without changing the store, whatever else is requested; "."
\* is a member of a set only through create.
C13_AddRejectsDot ==
    /\ (op = "add" /\ InRepos("."))
          => /\ wpc = "done" => result = "err"
             /\ SetUntouched
             /\ created_repos = <<>>
    /\ "." \in worktrees => op \in {"create", "exec"}

C13_Witness ==
    /\ op = "add"
    /\ args.repos = <<"y", ".">>
    /\ args.name_valid
    /\ was_present
    /\ wpc = "done"
    /\ result = "err"

\* C14: add fails when a requested alias is already a member of the set, and
\* a failed add leaves the set unchanged: no worktree added for any repo of
\* the call, the store entry's repo list unchanged.
C14_FailedAddLeavesSetUnchanged ==
    /\ (op = "add" /\ wpc = "done" /\ was_present /\ args.name_valid
          /\ InRepos("x")) => result = "err"
    /\ (op = "add" /\ wpc = "done" /\ result = "err") => SetUntouched

\* C15: remove without --force on a set in which a repo has uncommitted
\* changes returns an error and removes nothing (every worktree, the set
\* directory and the store entry remain, no hook fires); with --force the
\* dirty check does not refuse.
C15_DirtyRefusesRemove ==
    /\ (op = "destroy" /\ ~args.force /\ args.dirty)
          => /\ wpc = "done" => result = "err"
             /\ SetUntouched
             /\ events = <<>>
    /\ (op = "destroy" /\ args.force) => ~DirtyRefused

C15_Witness ==
    /\ op = "destroy"
    /\ ~args.force
    /\ args.dirty
    /\ args.name_valid
    /\ was_present
    /\ wpc = "done"
    /\ result = "err"
    /\ worktrees = {"x"}
    /\ wt_dir
    /\ IsSome(store)

(* --------------------------- claims: prune ----------------------------- *)

PruneHappened(e) == \E i \in 1..Len(prune_events) : prune_events[i] = e
Store0 == prune_args.store0
Dirs0 == prune_args.dirs0
SelectedKeys == {to_remove[i].path : i \in 1..Len(to_remove)}
ReasonsOf(k) == {to_remove[i].reason : i \in {j \in 1..Len(to_remove) :
                                                  to_remove[j].path = k}}
AllAliasesGone(e) ==
    /\ IsSome(LoadConfig(e.project))
    /\ e.repos # <<>>
    /\ \A i \in 1..Len(e.repos) :
          \A j \in 1..Len(Unwrap(LoadConfig(e.project))) :
             Unwrap(LoadConfig(e.project))[j] # e.repos[i]

\* C16: prune gives every store entry the first reason that applies, in the
\* order: set root directory absent; project path absent; manifest loadable,
\* repo list non-empty and every alias absent from it; TTL remaining <= 0.
\* An entry matching none is not selected, a selected entry has exactly one
\* reason, and an entry with only some aliases missing or without a loadable
\* manifest is not classified by the third rule.
C16_PruneClassification ==
    PruneHappened("classified") =>
        /\ \A i, j \in 1..Len(to_remove) :
              to_remove[i].path = to_remove[j].path => i = j
        /\ \A k \in DOMAIN Store0 :
              LET e == Store0[k]
              IN  ReasonsOf(k) =
                    IF k \notin Dirs0
                    THEN {"orphaned (missing directory)"}
                    ELSE IF e.project = "gone"
                    THEN {"orphaned (source project missing)"}
                    ELSE IF AllAliasesGone(e)
                    THEN {"orphaned (all source repos removed from project)"}
                    ELSE IF /\ e.ttl_seconds # None
                            /\ e.ttl_seconds[1] - prune_args.now <= 0
                    THEN {"ttl_expired"}
                    ELSE {}

C16_Witness ==
    /\ PruneHappened("classified")
    /\ Len(to_remove) = 2
    /\ to_remove[1].reason = "orphaned (all source repos removed from project)"
    /\ to_remove[2].reason = "ttl_expired"
    /\ Store0["k2"].repos = <<"x", "z">>
    /\ Store0["k2"].project = "p"

\* C17: prune --dry-run changes nothing (no directory removed, the store not
\* written, no hook fired), and what it reports is the selection a
\* non-dry-run prune makes from the same state: in both modes to_remove is
\* the classification of the state the command started in.
C17_DryRunReportsOnly ==
    /\ (ppc # "p_start" /\ prune_args.dry_run) =>
          /\ store_worktrees = Store0
          /\ set_dirs = Dirs0
          /\ removed = <<>>
          /\ ~PruneHappened("store_remove_batch")
          /\ ~PruneHappened("post_prune")
    /\ PruneHappened("classified") => to_remove = Classify(Store0, Dirs0)

C17_Witness ==
    /\ prune_args.dry_run
    /\ ppc = "done"
    /\ prune_result = "ok"
    /\ PruneHappened("report")
    /\ Len(to_remove) = 2
    /\ "k1" \in set_dirs
    /\ "k2" \notin set_dirs

\* the removal attempt of this step left the directory in place
DeleteFailedNow ==
    /\ ppc = "p_remove"
    /\ pidx <= Len(to_remove)
    /\ to_remove[pidx].path \in set_dirs
    /\ set_dirs' = set_dirs

\* C18: a non-dry-run prune removes a store entry only if the set's directory
\* no longer exists after the removal attempt: an entry whose directory could
\* not be deleted is not recorded as removed and stays in the store, and
\* outside strict mode prune goes on with the next selected entry.
C18_StoreRemovalOnlyWhenDirGone ==
    /\ [](/\ \A k \in DOMAIN Store0 \ DOMAIN store_worktrees : k \notin set_dirs
          /\ RemovedKeys \cap set_dirs = {})
    /\ [][(DeleteFailedNow /\ ~prune_args.strict) =>
             /\ ppc' = "p_remove"
             /\ pidx' = pidx + 1
             /\ removed' = removed]_vars

C18_Witness ==
    /\ ~prune_args.strict
    /\ ppc = "done"
    /\ prune_result = "ok"
    /\ Len(to_remove) = 2
    /\ Dirs0 = {"k1", "k2"}
    /\ set_dirs = {"k1"}
    /\ DOMAIN store_worktrees = {"k1"}

\* C19: when a non-dry-run prune returns, normally or through a strict-mode
\* abort, every selected entry whose directory this run deleted (or found
\* absent and processed) has been removed from the store.
C19_RemovedEntriesLeaveStore ==
    (ppc = "done" /\ ~prune_args.dry_run)
        => RemovedKeys \cap DOMAIN store_worktrees = {}

\* C20: after a non-dry-run prune that returned without error, a prune
\* --dry-run that follows at once selects nothing: every entry the first run
\* selected is gone from the store and no remaining entry is classified for
\* removal.
C20_PruneThenDryRunEmpty ==
    (/\ ppc = "done"
     /\ ~prune_args.dry_run
     /\ prune_result = "ok"
     /\ PruneHappened("classified"))
        => /\ SelectedKeys \cap DOMAIN store_worktrees = {}
           /\ Classify(store_worktrees, set_dirs) = <<>>

\* an entry whose manifest is loadable and still lists one of its aliases
HasAliasInManifest(e) ==
    /\ IsSome(LoadConfig(e.project))
    /\ \E i \in 1..Len(e.repos) :
          \E j \in 1..Len(Unwrap(LoadConfig(e.project))) :
             Unwrap(LoadConfig(e.project))[j] = e.repos[i]

\* C21: an entry whose ttl_seconds is absent is never classified ttl_expired,
\* whatever the clock reads, and the ephemeral flag alone never makes prune
\* select an entry: an entry whose directory and project exist and that has
\* at least one alias still in the manifest is selected only if it has a TTL
\* and its remaining time is <= 0.
C21_NoTtlNeverExpires ==
    PruneHappened("classified") =>
        \A k \in DOMAIN Store0 :
           LET e == Store0[k]
           IN  /\ e.ttl_seconds = None => "ttl_expired" \notin ReasonsOf(k)
               /\ ( /\ k \in Dirs0
                    /\ e.project # "gone"
                    /\ HasAliasInManifest(e)
                    /\ k \in SelectedKeys )
                   => /\ e.ttl_seconds # None
                      /\ e.ttl_seconds[1] - prune_args.now <= 0

C21_Witness ==
    /\ PruneHappened("classified")
    /\ prune_args.now = 2
    /\ DOMAIN Store0 = {"k1", "k2"}
    /\ Dirs0 = {"k1", "k2"}
    /\ Store0["k1"] = [project |-> "p", repos |-> <<"x">>,
                       ephemeral |-> TRUE, ttl_seconds |-> None]
    /\ Store0["k2"] = [project |-> "p", repos |-> <<"x">>,
                       ephemeral |-> FALSE, ttl_seconds |-> Some(1)]
    /\ SelectedKeys = {"k2"}

(* ------------------------ claims: expiry of a set ---------------------- *)

\* the set existed, with its store entry, when the command started and its
\* TTL had run out
ExpiredSet ==
    /\ was_present
    /\ IsSome(args.ttl_remaining)
    /\ Unwrap(args.ttl_remaining) <= 0

\* C22: expiry is advisory.  list, status, diff, exec and add applied to a
\* set whose TTL has run out leave its directory, its worktrees and its store
\* entry in place at every step, and list labels the set expired.
C22_ExpiryAdvisory ==
    (op \in {"list", "status", "diff", "exec", "add"} /\ ExpiredSet)
        => /\ wt_dir
           /\ InitialWorktrees \subseteq worktrees
           /\ IsSome(store)
           /\ (op \in {"list", "status", "diff", "exec"}) => SetUntouched
           /\ (op = "list" /\ wpc = "done" /\ result = "ok")
                 => events = <<"[expired]">>

C22_Witness ==
    /\ op = "list"
    /\ ExpiredSet
    /\ args.ttl_remaining = Some(0)
    /\ wpc = "done"
    /\ events = <<"[expired]">>
    /\ SetUntouched

(* --------------------------- claims: snapshot -------------------------- *)

\* the repos recorded in the snapshot that were git repos on disk when the
\* restore started
PresentAtRestore == {r \in DOMAIN Unwrap(snap) : disk_r[r].present}

\* C23: a capture followed by restore --force on a workspace that did not
\* change moves no repo to a different SHA; the restore stashes a repo at most
\* once, never a repo that was clean when the restore started, and a repo it
\* checked out was stashed exactly once if it was dirty.
C23_CaptureRestoreKeepsShas ==
    (spc \in {"restore", "done"} /\ snap_args.force)
        => \A r \in SnapRepos :
              /\ ~changed => disk[r].sha = disk_r[r].sha
              /\ stashes[r] <= 1
              /\ stashes[r] = 1 => disk_r[r].present /\ disk_r[r].dirty
              /\ r \in checkouts =>
                    stashes[r] = IF disk_r[r].dirty THEN 1 ELSE 0

C23_Witness ==
    /\ spc = "done"
    /\ snap_args.force
    /\ ~changed
    /\ snap_events = <<"preview", "report">>
    /\ success_count = 2
    /\ disk_r["r1"].dirty
    /\ stashes["r1"] = 1
    /\ ~disk_r["r2"].dirty
    /\ stashes["r2"] = 0
    /\ checkouts = {"r1", "r2"}
    /\ disk["r1"].sha = disk_r["r1"].sha

\* C24: in a restore that goes ahead (--force, no dry-run, snapshot loaded), a
\* recorded repo that is missing or no longer a git repo is skipped and not
\* counted, a failure while examining or restoring one repo does not keep the
\* command from restoring the others and reporting, and the success and
\* failure counts sum to the number of present repos.
C24_RestoreToleratesFailures ==
    ( /\ spc = "done"
      /\ snap_args.name /\ snap_args.force
      /\ ~snap_args.dry_run /\ ~snap_args.dry_run_arg
      /\ snap_events # <<>> )
        => /\ snap_events[Len(snap_events)] = "report"
           /\ success_count + fail_count = Cardinality(PresentAtRestore)
           /\ \A r \in DOMAIN Unwrap(snap) \ PresentAtRestore :
                 r \notin checkouts /\ stashes[r] = 0

\* C25: a restore with dry-run, given as the request's option or as the
\* --dry-run argument, and a restore without --force whose prompt is declined
\* run no stash and no checkout and change no repo, and once the preview is
\* printed they return success.
C25_DryRunAndDeclineChangeNothing ==
    ( /\ spc = "done"
      /\ \/ snap_args.dry_run \/ snap_args.dry_run_arg
         \/ ~snap_args.force /\ snap_events = <<"preview", "aborted">> )
        => /\ checkouts = {}
           /\ \A r \in SnapRepos : stashes[r] = 0
           /\ disk = disk_r
           /\ (snap_events # <<>> /\ snap_events[1] = "preview")
                 => snap_result = "ok"

C25_Witness ==
    /\ spc = "done"
    /\ snap_args.dry_run_arg
    /\ ~snap_args.dry_run
    /\ snap_args.force
    /\ snap_events = <<"preview", "dry_run">>
    /\ snap_result = "ok"
    /\ Len(repos_to_restore) = 2
    /\ repos_to_restore[1].dirty
    /\ changed
    /\ disk["r2"].sha # Unwrap(snap)["r2"].sha
    /\ checkouts = {}

(* ------------------------- claims: commit --edit ----------------------- *)

\* C26: for every list of staged repos, parsing the template of the editor
\* mode as the editor got it, unmodified, yields zero commits.
C26_UnmodifiedTemplateNoCommits ==
    (edit = None /\ cpc \in {"commit", "done"}) => commits = <<>>

C26_Witness ==
    /\ edit = None
    /\ cpc = "done"
    /\ Len(staged) = 2
    /\ staged[1][1] = <<"#", "a">>
    /\ staged[2][2] = << <<"f">>, <<"#", "g">> >>
    /\ content = Template(staged)
    /\ commits = <<>>

\* a section header is a line that begins and ends with ten "="; the
\* section of the header at h ends before the next header; its body is its
\* lines that do not start with "#", each followed by a line break
HeaderLine(line) ==
    /\ Len(line) >= 10
    /\ \A k \in 1..10 : line[k] = "=" /\ line[Len(line) + 1 - k] = "="
SectionEnd(hs, h, n) ==
    IF \E j \in hs : j > h
    THEN CHOOSE j \in hs : j > h /\ \A k \in hs : k > h => j <= k
    ELSE n + 1
RECURSIVE Body(_, _, _)
Body(ls, i, end) ==
    IF i >= end THEN <<>>
    ELSE IF ls[i] # <<>> /\ ls[i][1] = "#"
    THEN Body(ls, i + 1, end)
    ELSE ls[i] \o <<"\n">> \o Body(ls, i + 1, end)
Blank(t) == \A k \in 1..Len(t) : t[k] \in {" ", "\t", "\n", "\r"}

\* C27: parse_multi_commit_file returns exactly one (repo, message) pair for
\* each section whose non-comment body is not blank, in the order of the
\* sections.  The pair of a section holds its header's name and its body:
\* the lines after the header up to the next header, without those starting
\* with "#", with the whitespace at both ends cut off and everything between
\* kept.  Lines before the first header belong to no section.
C27_OnePairPerNonEmptySection ==
    cpc \in {"commit", "done"} =>
        LET ls == Lines(content)
            hs == {i \in 1..Len(ls) : HeaderLine(ls[i])}
            body == [h \in hs |-> Body(ls, h + 1, SectionEnd(hs, h, Len(ls)))]
            kept == {h \in hs : ~Blank(body[h])}
        IN  /\ Len(commits) = Cardinality(kept)
            /\ \A h \in kept :
                  LET pair == commits[Cardinality({j \in kept : j <= h})]
                      msg == pair[2]
                      b == body[h]
                  IN  /\ pair[1] = SectionName(ls[h])
                      /\ msg # <<>>
                      /\ ~Blank(<<msg[1]>>) /\ ~Blank(<<msg[Len(msg)]>>)
                      /\ \E a \in 0..Len(b) :
                            /\ b = SubSeq(b, 1, a) \o msg
                                 \o SubSeq(b, a + Len(msg) + 1, Len(b))
                            /\ Blank(SubSeq(b, 1, a))
                            /\ Blank(SubSeq(b, a + Len(msg) + 1, Len(b)))

C27_Witness ==
    /\ cpc = "done"
    /\ edit = Some(Unlines(<< <<"m">>,
                              Marker \o <<" ", "a", " ">> \o Marker,
                              <<"#", "c">>,
                              <<" ", "m", " ", " ", "n", " ">> >>))
    /\ commits = << << <<"a">>, <<"m", " ", " ", "n">> >> >>

\* C28: update leaves every local git repo that no manifest lists as it is:
\* the repo stays on disk, it is never put in the queue, never handed to a
\* worker and never the target of a git clone, whether the run is normal,
\* recursive or a dry run; all update does about it is the warning, which is
\* printed once the first pass is over for exactly those of the repos whose
\* parent directory is checked and has a manifest that parses.
C28_OrphansOnlyWarned ==
    cmd = "update" =>
      /\ \A o \in orphans :
            /\ o \in exists /\ o \in cloned
            /\ o \notin PendingPaths
            /\ \A p \in Procs : task[p].target_path # o /\ cur[p].target_path # o
            /\ o \notin completed \cup failed \cup gitFailed
      /\ pc[Main] # "orphans" =>
            warnings =
              {o \in orphans :
                  LET parent == SubSeq(o, 1, Len(o) - 1)
                  IN  /\ parent \in DOMAIN world
                      /\ parent \notin broken
                      /\ (parent = Root \/ meta_depth = None)}

\* a dry run that warned about an orphan at the top and one inside a project
C28_Witness ==
    /\ cmd = "update"
    /\ dry_run
    /\ pc[Main] = "dry_returned"
    /\ <<"o">> \in warnings
    /\ \E o \in warnings : Len(o) = 2
    /\ orphans \subseteq exists

\* C29: in the pool that clone uses no worker has left its loop while a worker
\* holds a task it popped (the task is held until the worker's fetch_sub, so
\* through the marking and the pushes that the marking makes): once a worker
\* has seen is_finished true, pending is empty, no task is held, no push is
\* under way and the active counter is zero or counts idle pollers only.
C29_ClonePoolExitsOnlyWhenIdle ==
    (cmd = "clone" /\ \E w \in Workers : pc[w] = "exited") =>
        /\ pending = <<>>
        /\ \A w \in Workers :
              /\ task[w] = NoTask
              /\ pc[w] \in {"unspawned", "inc", "take", "dec_none", "check",
                            "exited"}
        /\ active_workers =
              Cardinality({w \in Workers : pc[w] \in {"take", "dec_none"}})

\* a worker has left while the other one, which cloned a repo, still polls
C29_Witness ==
    /\ cmd = "clone"
    /\ parallelism = 2
    /\ pc[1] = "exited"
    /\ pc[2] = "take"
    /\ completed # {}
    /\ total_completed = total_discovered

\* C30: in the pool that update uses no worker has left its loop while a
\* worker holds a task it popped and has not yet marked completed or failed.
C30_UpdatePoolExitsOnlyWhenIdle ==
    (cmd = "update" /\ \E w \in Workers : pc[w] = "exited") =>
        \A w \in Workers :
            pc[w] \notin {"inc_some", "clone", "git", "mc_count", "mf_count",
                          "mc_insert", "mf_insert"}

\* C31: a step of push changes the queue only by appending its task to pending,
\* and then discovered grows by exactly one and push returns true (the caller
\* counts it); a push that finds its target_path in completed at its completed
\* check, or in pending at its pending check, returns false (the caller's
\* count stays) and leaves pending, completed, failed, discovered and done as
\* they are; discovered is incremented by nothing but an appending push.
C31_PushContract ==
    [][/\ \A p \in Procs :
            /\ (pc[p] = "push_chk" /\ pc'[p] # "push_chk") =>
                  /\ UNCHANGED <<pending, completed, failed, total_discovered,
                                 total_completed, added>>
                  /\ cur[p].target_path \in completed => pc'[p] = "pfm"
            /\ (pc[p] = "push_ins" /\ pc'[p] # "push_ins") =>
                  /\ UNCHANGED <<completed, failed, total_completed>>
                  /\ IF cur[p].target_path
                          \in {pending[i].target_path : i \in 1..Len(pending)}
                     THEN UNCHANGED <<pending, total_discovered, added>>
                     ELSE /\ Len(pending') = Len(pending) + 1
                          /\ SubSeq(pending', 1, Len(pending)) = pending
                          /\ pending'[Len(pending')].target_path
                                = cur[p].target_path
                          /\ total_discovered' = total_discovered + 1
                          /\ added'[p] = added[p] + 1
       /\ total_discovered' # total_discovered =>
            /\ total_discovered' = total_discovered + 1
            /\ Len(pending') = Len(pending) + 1
            /\ \E p \in Procs : pc[p] = "push_ins" /\ added'[p] = added[p] + 1
    ]_vars

\* pushes have appended tasks, and a push is now at its completed check with
\* a target that was completed after push_from_meta found it missing on disk
C31_Witness ==
    /\ total_discovered >= 2
    /\ \E p \in Procs : /\ pc[p] = "push_chk"
                         /\ cur[p].target_path \in completed

\* the tasks a call push_from_meta(base, d) has to add: the missing projects
\* of the manifest of base, and for a project that exists those of its own
\* manifest one level deeper, while the meta depth allows
RECURSIVE MissingBelow(_, _)
MissingBelow(base, d) ==
    IF \/ (meta_depth # None /\ d > meta_depth[1])
       \/ base \notin cloned
       \/ base \notin DOMAIN world
    THEN {}
    ELSE UNION {IF base \o world[base][i] \in exists
                THEN MissingBelow(base \o world[base][i], d + 1)
                ELSE {base \o world[base][i]} : i \in 1..Len(world[base])}

\* C32: a step of push_from_meta that looks at a project whose target path
\* exists on disk starts no push and changes nothing of pending, and goes on
\* with the manifest of that project one level deeper when it has one; a
\* project that is missing is handed to push.  When the seeding of clone has
\* returned, pending holds exactly the missing projects, those nested in
\* existing projects within the depth budget included, none that exists, and
\* the value returned is the number of tasks in pending.
C32_ExistingSkippedChildrenQueued ==
    /\ []((cmd = "clone" /\ pc[Main] = "seeded") =>
             /\ {pending[i].target_path : i \in 1..Len(pending)}
                   = MissingBelow(Root, 0)
             /\ \A i \in 1..Len(pending) : pending[i].target_path \notin exists
             /\ added[Main] = Len(pending)
             /\ added[Main] = total_discovered)
    /\ [][\A p \in Procs :
            (/\ pc[p] = "pfm" /\ todo[p] # <<>> /\ todo'[p] # todo[p]
             /\ ~Head(todo[p]).call) =>
               LET it == Head(todo[p])
               IN  IF it.target_path \in exists
                   THEN /\ pc'[p] = "pfm"
                        /\ UNCHANGED <<pending, total_discovered, added>>
                        /\ todo'[p] =
                              IF it.target_path \in cloned
                                 /\ it.target_path \in DOMAIN world
                              THEN <<[target_path |-> it.target_path,
                                      depth_level |-> it.depth_level + 1,
                                      call |-> TRUE]>> \o Tail(todo[p])
                              ELSE Tail(todo[p])
                   ELSE /\ pc'[p] = "push_chk"
                        /\ cur'[p] = it
                        /\ todo'[p] = Tail(todo[p])
       ]_vars

\* clone seeded its queue in a workspace where a exists: a is not in pending,
\* its missing child a/b is, and the seeding returned 1
C32_Witness ==
    /\ cmd = "clone"
    /\ pc[Main] = "seeded"
    /\ <<"a">> \in exists
    /\ PendingPaths = {<<"a", "b">>}
    /\ added[Main] = 1

\* C33: the steps of create come in one order.  The root worktree "." (when
\* it is in the set) or else the empty set-root directory (when "." is not
\* in the set, or was tried first and skipped under --from-ref) is made while
\* the set has no worktree; a child
\* worktree is made only in the set root and before the .gitignore entry; the
\* .gitignore entry is written only when every child was created or skipped,
\* before the store entry; the store entry is written only after the
\* .gitignore entry, before the hook; the hook fires only after the store
\* step.  Once create has returned an error nothing more is written, and a
\* create that returned an error left the store as it found it and fired no
\* hook.
C33_CreateStepOrder ==
    /\ []((op = "create" /\ result = "err") =>
             /\ store = InitialStore
             /\ \A i \in 1..Len(events) : events[i] # "post_create")
    /\ [][(op = "create" /\ wpc # "done") =>
            /\ (wt_dir' /\ ~wt_dir) =>
                  /\ worktrees = {}
                  /\ worktrees' \in {{}, {"."}}
                  /\ worktrees' = {"."} =>
                        \E i \in 1..Len(args.repos) : args.repos[i] = "."
                  /\ worktrees' = {} =>
                        \/ \A i \in 1..Len(args.repos) : args.repos[i] # "."
                        \/ /\ args.from_ref /\ ~args.strict
                           /\ events = <<"worktree_add_failed">>
            /\ \A a \in worktrees' \ worktrees :
                  /\ a = "." => ~wt_dir /\ wt_dir'
                  /\ a # "." => wt_dir
                  /\ ~gitignore /\ store = None
            /\ (gitignore' /\ ~gitignore) =>
                  /\ wt_dir
                  /\ \A i \in 1..Len(args.repos) :
                        \/ args.repos[i] \in worktrees
                        \/ /\ args.from_ref /\ ~args.strict
                           /\ \E j \in 1..Len(events) :
                                 events[j] = "worktree_add_failed"
                  /\ store' = None
            /\ store' # store =>
                  /\ gitignore
                  /\ store = None
                  /\ \A i \in 1..Len(events') : events'[i] # "post_create"
            /\ (\E i \in 1..Len(events') : events'[i] = "post_create") =>
                  /\ gitignore'
                  /\ store' # None \/ ~args.strict
            /\ result = "err" =>
                  UNCHANGED <<wt_dir, worktrees, gitignore, store, events>>
            /\ result' = "err" => UNCHANGED <<store, gitignore>>
       ]_vars

\* a create of "." and "x" failed on the child: the root worktree is on disk,
\* there is no store entry and no hook was fired
C33_Witness ==
    /\ op = "create"
    /\ result = "err"
    /\ worktrees = {"."}
    /\ wt_dir
    /\ store = None
    /\ ~gitignore
    /\ events = <<"worktree_add_failed">>

\* C34: remove deletes the store entry only when the worktrees of the set are
\* removed and the set directory is gone from disk, and fires post_destroy
\* only after the store step; a remove whose worktree removal failed returns
\* the error, keeps the store entry and fires no hook.
C34_RemoveOrder ==
    /\ []((op = "destroy" /\ result = "err") =>
             /\ store = InitialStore
             /\ \A i \in 1..Len(events) : events[i] # "post_destroy")
    /\ [][op = "destroy" =>
            /\ (store' = None /\ store # None) =>
                  /\ worktrees = {}
                  /\ ~wt_dir
                  /\ \A i \in 1..Len(events') : events'[i] # "post_destroy"
            /\ (\E i \in 1..Len(events') : events'[i] = "post_destroy") =>
                  /\ wpc \in {"d_hook", "done"}
                  /\ worktrees' = {}
            /\ (wpc = "d_remove" /\ worktrees' # {}) =>
                  /\ result' = "err"
                  /\ wpc' = "done"
                  /\ store' = store
       ]_vars

\* C35: warn_or_bail returns Err exactly in strict mode; warn_store_error
\* returns Ok for an Ok result in both modes and for an Err result returns Err
\* exactly in strict mode.  When the store write at the end of create fails,
\* default mode prints a warning and goes on to the hook, so that create
\* returns success without a store entry, and strict mode makes create
\* return the error without firing the hook.
C35_StoreErrorWarnsOrFails ==
    /\ [](/\ \A s \in BOOLEAN :
               /\ WarnOrBailIsErr(s) = s
               /\ ~WarnStoreErrorIsErr(TRUE, s)
               /\ WarnStoreErrorIsErr(FALSE, s) = s
          /\ (op = "create"
                /\ \E i \in 1..Len(events) : events[i] = "store_warning") =>
                /\ ~args.strict
                /\ store = None
                /\ wpc \in {"c_hook", "done"}
                /\ wpc = "done" =>
                      /\ result = "ok"
                      /\ \E i \in 1..Len(events) : events[i] = "post_create"
          /\ (op = "create" /\ args.strict /\ result = "ok") => store # None)
    /\ [][(op = "create" /\ wpc = "c_store" /\ store' = store) =>
            IF args.strict
            THEN /\ result' = "err"
                 /\ wpc' = "done"
                 /\ events' = events
            ELSE /\ events' = Append(events, "store_warning")
                 /\ wpc' = "c_hook"
                 /\ result' = result
       ]_vars

\* a create in default mode whose store write failed: it returned success
\* after the warning and the hook, and the set has no store entry
C35_Witness ==
    /\ op = "create"
    /\ ~args.strict
    /\ result = "ok"
    /\ store = None
    /\ worktrees = {"x"}
    /\ events = <<"store_warning", "post_create", "create_ok">>

\* C36: a task (an item of pending) that take_one hands out goes to one
\* worker and leaves pending; the worker marks it once, completed when the
\* target existed or git clone succeeded, failed when git clone failed, never
\* both, and a manifest that fails to parse after the marking does not undo
\* it; done is the number of tasks taken less those a worker holds and has
\* not yet counted.
C36_TakenOnceMarkedOnce ==
    /\ [](pc[Main] # "dry_returned" =>
             total_completed =
               (total_discovered - Len(pending))
               - Cardinality({w \in Workers :
                     /\ task[w] # NoTask
                     /\ pc[w] \in {"inc_some", "clone", "git", "mc_count",
                                   "mf_count"}}))
    /\ [][\A w \in Workers :
            /\ task'[w] # task[w] /\ task'[w] # NoTask =>
                  /\ task[w] = NoTask
                  /\ pending # <<>>
                  /\ task'[w] = pending[Len(pending)]
                  /\ pending' = SubSeq(pending, 1, Len(pending) - 1)
                  /\ \A v \in Workers \ {w} : task'[v] = task[v]
            /\ (pc[w] \in {"clone", "git"} /\ pc'[w] = "mc_count") =>
                  task[w].target_path \in exists'
            /\ (pc[w] \in {"clone", "git"} /\ pc'[w] = "mf_count") =>
                  /\ pc[w] = "git"
                  /\ task[w].target_path \in gitFailed'
            /\ (pc[w] = "mc_count" /\ pc'[w] # "mc_count") =>
                  /\ pc'[w] = "mc_insert"
                  /\ total_completed' = total_completed + 1
            /\ (pc[w] = "mf_count" /\ pc'[w] # "mf_count") =>
                  /\ pc'[w] = "mf_insert"
                  /\ total_completed' = total_completed + 1
            /\ (pc[w] = "mc_insert" /\ pc'[w] # "mc_insert") =>
                  /\ completed' = completed \cup {task[w].target_path}
                  /\ failed' = failed
            /\ (pc[w] = "mf_insert" /\ pc'[w] # "mf_insert") =>
                  /\ failed' = failed \cup {task[w].target_path}
                  /\ completed' = completed
                  /\ pc'[w] = "dec_some"
            /\ (pc[w] \in {"pfm", "push_chk", "push_ins", "dec_some"}
                  /\ pc'[w] # pc[w]) =>
                  /\ total_completed' = total_completed
                  /\ completed' = completed
                  /\ failed' = failed
                  /\ pc'[w] \notin {"mc_count", "mf_count", "mc_insert",
                                    "mf_insert", "clone", "git"}
       ]_vars

\* the pool returned after b was cloned and marked completed although its
\* manifest does not parse, and another clone had failed
C36_Witness ==
    /\ pc[Main] = "returned"
    /\ <<"b">> \in broken
    /\ <<"b">> \in completed
    /\ <<"b">> \notin failed
    /\ failed # {}
    /\ total_completed = total_discovered

\* C37: in both pools the active-worker counter equals the number of workers
\* that are between their fetch_add and their fetch_sub, so it is never below
\* 0 and never above the number of workers, a worker decrements only after
\* its own increment, and the counter is 0 when the pool has returned.
C37_ActiveCounterInRange ==
    cmd \in {"clone", "update"} =>
      /\ active_workers >= 0
      /\ active_workers <= parallelism
      /\ active_workers =
            Cardinality({w \in Workers :
                \/ pc[w] \in {"clone", "git", "mc_count", "mf_count",
                              "mc_insert", "mf_insert", "pfm", "push_chk",
                              "push_ins", "dec_some"}
                \/ cmd = "clone" /\ pc[w] \in {"take", "dec_none"}})
      /\ pc[Main] = "returned" => active_workers = 0

\* both workers of a clone are counted active, one of them while it polls
\* the empty queue
C37_Witness ==
    /\ cmd = "clone"
    /\ active_workers = 2
    /\ pending = <<>>
    /\ pc[1] = "take"
    /\ pc[2] = "git"

\* C38: exec --ephemeral with the name of a set that exists fails in the
\* create step: the step returns the error and exec ends there.  The guard is
\* never armed, destroy is never called, and the set root, the worktrees, the
\* store entry and the .gitignore entry of the existing set stay as they
\* were.  In every exec the guard is armed only after create has succeeded.
C38_EphemeralOnExistingSetFails ==
    /\ []((op = "exec" /\ args.ephemeral /\ was_present) =>
             /\ ~guard
             /\ wt_dir
             /\ worktrees = {"x"}
             /\ store = <<[repos |-> <<"x">>, ephemeral |-> FALSE]>>
             /\ gitignore
             /\ events = <<>>
             /\ wpc \in {"h_exec", "e_start", "c_pre", "done"}
             /\ wpc = "done" => result = "err")
    /\ []((op = "exec" /\ guard) =>
             \E i \in 1..Len(events) : events[i] = "create_ok")
    /\ [][(op = "exec" /\ args.ephemeral /\ was_present /\ wpc = "c_pre") =>
            (wpc' = "done" /\ result' = "err")
       ]_vars

\* exec --ephemeral with a valid name and a command ended with an error on a
\* set that exists, and the set is still there
C38_Witness ==
    /\ op = "exec"
    /\ args.ephemeral
    /\ args.name_valid
    /\ ~args.command_empty
    /\ args.repos # <<>>
    /\ was_present
    /\ wpc = "done"
    /\ result = "err"
    /\ worktrees = {"x"}
    /\ store # None

\* C39: a remove of a set whose root directory is absent returns the
\* not-found error and leaves the store and the disk as they are, however
\* often it is called; an entry leaves the store either in a remove of its
\* set whose directory exists or in the store step of a prune that is not a
\* dry run and that selected it, and when its directory was absent at the
\* start of that prune the reason is 'orphaned (missing directory)'.
C39_StaleEntryLeavesOnlyByPrune ==
    [][\A k \in {"k1", "k2"} :
          /\ (/\ remove_calls' # remove_calls
              /\ remove_result'.key = k
              /\ k \notin set_dirs) =>
                  /\ remove_result'.outcome = "not_found"
                  /\ UNCHANGED <<store_worktrees, set_dirs>>
          /\ (k \in DOMAIN store_worktrees
                /\ k \notin DOMAIN store_worktrees') =>
                  \/ /\ remove_calls' # remove_calls
                     /\ remove_result' = [key |-> k, outcome |-> "ok"]
                     /\ k \in set_dirs
                  \/ /\ remove_calls' = remove_calls
                     /\ ppc = "p_store"
                     /\ ~prune_args.dry_run
                     /\ \E i \in 1..Len(to_remove) : to_remove[i].path = k
                     /\ k \notin prune_args.dirs0 =>
                           \A i \in 1..Len(to_remove) :
                              to_remove[i].path = k =>
                                to_remove[i].reason
                                  = "orphaned (missing directory)"
      ]_vars

\* the entry k1, whose directory was missing from the start, got the
\* not-found error from two remove calls and was then taken out of the store
\* by a prune
C39_Witness ==
    /\ "k1" \in DOMAIN prune_args.store0
    /\ "k1" \notin prune_args.dirs0
    /\ remove_calls = 2
    /\ remove_result = [key |-> "k1", outcome |-> "not_found"]
    /\ prune_result = "ok"
    /\ ~prune_args.dry_run
    /\ "k1" \notin DOMAIN store_worktrees
    /\ \E i \in 1..Len(removed) :
          removed[i] = [path |-> "k1", reason |-> "orphaned (missing directory)"]

====
